---- MODULE Spec2Model ----
(***************************************************************************)
(* The resilient data-serving path of the Smart Pharma Copilot dashboard:  *)
(* the Express gateway (UI Code/server.js), and the dashboard panels that  *)
(* poll it (LiveSensors, ForecastPanel, OEEDisplay, RLControl), the OEE    *)
(* scoring of OEEDisplay and the generators of synthetic payloads.         *)
(*                                                                         *)
(* Upstream services are opaque: every call to one ends in an Outcome the  *)
(* environment chooses.                                                    *)
(***************************************************************************)
EXTENDS Integers, Sequences, FiniteSets, TLC

VARIABLES
  req,      \* gateway: slot -> the request being served on that connection
  poll,     \* LiveSensors: slot -> one invocation of fetchData
  ls,       \* LiveSensors: the component's React state
  panel,    \* ForecastPanel / OEEDisplay / RLControl: one fetch cycle
  oee,      \* OEEDisplay: the inputs of the scoring, its result and the history
  syn,      \* the synthetic payload generated last
  doc,    \* built-in reports: the snapshot and the reports rendered from it
  svc,    \* GET /api-status: the health calls and the answer
  rl,     \* RLControl: the displayed action and the safety status
  view,   \* ReportsView: the component state and the requests in flight
  app     \* App: the navigation state and the event handled last

vars == <<req, poll, ls, panel, oee, syn, doc, svc, rl, view, app>>

----------------------------------------------------------------------------
(* Bounds *)

\* gateway requests served at the same time in the gateway-only specification
MaxReq == 1

----------------------------------------------------------------------------
(* Upstream outcomes *)

\* the call never produced an HTTP response (connection refused, timed out)
NetFail == {"unreachable", "timeout"}

\* the connection broke after the response had started ("reset")
CallFailed == NetFail \cup {"reset"}

\* a 2xx response, by the shape of its JSON body:
\*   "sensors": { sensors: {...} }   "wrapped": { status: 'success', data: {...} }
\*   "junk":    neither
Shape2xx == {"sensors", "wrapped", "junk"}

\* "status": a response with a non-success status code
HttpOutcome == Shape2xx \cup {"status"}

Outcome == NetFail \cup HttpOutcome

\* axios resolves for a 2xx status and rejects for everything else
AxiosResolves(o) == o \in Shape2xx

----------------------------------------------------------------------------
(* Gateway routes (server.js) *)

predictionPrefix == {"/api/prediction/current", "/api/prediction/forecast",
                     "/api/prediction/defect", "/api/prediction/quality",
                     "/api/prediction/buffer-status", "/api/prediction/rl_action"}

predictionApiEndpoints == {"/api/current", "/api/forecast"}

legacyEndpoints == {"/current", "/health"}

apiReports == {"/api/reports/generate"}

legacyReports == {"/reports/generate"}

mockEndpoints == {"/api/mock/current"}

\* app.get('/health'), registered after every proxy
healthEndpoint == {"/health"}

\* routes answered by a createProxyMiddleware instance
Proxied == predictionPrefix \cup predictionApiEndpoints \cup legacyEndpoints
             \cup apiReports \cup legacyReports

\* the upstream every proxied route forwards to
Target(route) == IF route \in apiReports \cup legacyReports THEN "report" ELSE "prediction"

\* the routes whose onError tries the sensor API
CurrentRoutes == {"/api/current", "/current"}

----------------------------------------------------------------------------
(* Reports *)

ReportNames == {"Quality Control Report", "Batch Record Analysis",
                "Process Deviation Investigation", "OEE Performance Summary",
                "Regulatory Compliance Review", "Manufacturing Excellence Report"}

\* ReportsView.handleGenerateReport: UI report name -> report_type sent to the gateway
reportTypeMapping(name) ==
  CASE name = "Quality Control Report"          -> "quality_control"
    [] name = "Batch Record Analysis"           -> "batch_record"
    [] name = "Process Deviation Investigation" -> "deviation"
    [] name = "OEE Performance Summary"         -> "oee"
    [] name = "Regulatory Compliance Review"    -> "compliance"
    [] name = "Manufacturing Excellence Report" -> "excellence"
    [] OTHER                                    -> "quality_control"

\* the keys of server.js reportTemplates
TemplateKeys == {"quality_control", "batch_record", "process_deviation",
                 "oee_performance", "regulatory_compliance", "manufacturing_excellence"}

\* reportTemplates[key].name, which is also the heading each template renders
TemplateName(key) ==
  CASE key = "quality_control"          -> "Quality Control Report"
    [] key = "batch_record"             -> "Batch Record Analysis"
    [] key = "process_deviation"        -> "Process Deviation Investigation"
    [] key = "oee_performance"          -> "OEE Performance Summary"
    [] key = "regulatory_compliance"    -> "Regulatory Compliance Review"
    [] key = "manufacturing_excellence" -> "Manufacturing Excellence Report"

\* reportTemplates[reportType] || reportTemplates.quality_control
SelectTemplate(reportType) ==
  IF reportType \in TemplateKeys THEN reportType ELSE "quality_control"

\* the request body of a report request; NoBody for every other request
NoBody == [report_type |-> "none", report_requested |-> "none"]

ReportBody(name) == [report_type |-> reportTypeMapping(name), report_requested |-> name]

\* the report names that occur in the text a template renders: its own heading only
NamesInDocument(template) == {TemplateName(template)}

----------------------------------------------------------------------------
(* Responses *)

\* what the gateway wrote to the client connection
\*   code   HTTP status (0: nothing written)
\*   shape  shape of the JSON body ("error": an error object, "report": a report)
\*   origin who produced the body: an upstream, the gateway's generator or the gateway
\*   source the body's own `source` field, when the gateway wrote one
NoResp == [code |-> 0, shape |-> "none", origin |-> "none", source |-> "none"]

\* http-proxy pipes the upstream's response through unchanged
Relay(provider, o) ==
  [code |-> IF o = "status" THEN 500 ELSE 200,
   shape |-> IF o = "status" THEN "error" ELSE o,
   origin |-> provider, source |-> "none"]

\* res.status(500).json({ error: ... })
ErrorResponse == [code |-> 500, shape |-> "error", origin |-> "gateway", source |-> "none"]

\* res.json(mockData): { status: 'success', data: { ...Math.random()... }, source }
MockResponse(source) ==
  [code |-> 200, shape |-> "wrapped", origin |-> "synthetic", source |-> source]

\* the source tag of the emergency mock of each route
EmergencySource(route) ==
  IF route = "/current" THEN "legacy_emergency_fallback_mock" ELSE "emergency_fallback_mock"

\* the built-in report a request was answered with; NoReport for every other request
\*   data_origin  where sensorData came from   has_timestamp  sensorData.timestamp is set
NoReport == [report_type |-> "none", template |-> "none", data_source |-> "none",
             data_origin |-> "none", has_timestamp |-> FALSE]

FreeReq == [route |-> "none", pc |-> "free", body |-> NoBody, sent |-> 0,
            resp |-> NoResp, report |-> NoReport, calls |-> << >>]

\* the request as the first matching middleware leaves it
mockCurrent(route, body) ==
  [FreeReq EXCEPT !.route = route, !.body = body, !.pc = "end", !.sent = 1,
                  !.resp = MockResponse("mock_data_service")]

createProxyMiddleware(route, body) ==
  [FreeReq EXCEPT !.route = route, !.body = body, !.pc = "proxy",
                  !.calls = << <<Target(route), "pending">> >>]

\* res.json({ status: 'healthy', service: 'smart-pharma-copilot-ui', ... })
HealthResponse == [code |-> 200, shape |-> "health", origin |-> "gateway",
                   source |-> "smart-pharma-copilot-ui"]

healthHandler(route, body) ==
  [FreeReq EXCEPT !.route = route, !.body = body, !.pc = "end", !.sent = 1,
                  !.resp = HealthResponse]

\* the first middleware, in the order of registration, whose path matches: the
\* proxies (lines 43-594), the mock endpoints (681), app.get('/health') (1159)
Accept(route, body) ==
  CASE route \in Proxied         -> createProxyMiddleware(route, body)
    [] route \in mockEndpoints   -> mockCurrent(route, body)
    [] route \in healthEndpoint  -> healthHandler(route, body)

\* res.json / res.status().json on a request record
Send(r, response) == [r EXCEPT !.sent = @ + 1, !.resp = response]

\* the last call of the request resolved with outcome o
Resolved(r, o) == [r EXCEPT !.calls[Len(r.calls)] = <<@[1], o>>]

Call(r, provider) == [r EXCEPT !.calls = Append(@, <<provider, "pending">>)]

headersSent(r) == r.sent > 0

----------------------------------------------------------------------------
(* Gateway handlers (server.js) *)

\* sensorData as handleBuiltInReportGeneration holds it
EmptyData == [origin |-> "none", has_timestamp |-> FALSE]

\* generateMockData / the inline mock objects: every one carries timestamp: new Date()
MockData == [origin |-> "synthetic", has_timestamp |-> TRUE]

\* response.data.data of an upstream's 2xx answer ({} unless it has the wrapped shape)
DataOf(provider, o, ts) ==
  IF o = "wrapped" THEN [origin |-> provider, has_timestamp |-> ts] ELSE EmptyData

\* a handler that answers without looking at res.headersSent
MayRespondUnguarded(r) == TRUE

\* if (!res.headersSent)
MayRespond(r) == ~headersSent(r)

\* sensorData.timestamp ? 'live_sensors' : 'mock_data'
DataSourceLabel(data) == IF data.has_timestamp THEN "live_sensors" ELSE "mock_data"

\* the tail of handleBuiltInReportGeneration, from "Use mock data if no real data available"
RenderBuiltIn(r, sensorData) ==
  LET data == IF sensorData = EmptyData THEN MockData ELSE sensorData
      template == SelectTemplate(r.body.report_type)
  IN  [Send(r, [code |-> 200, shape |-> "report", origin |-> "builtin",
                source |-> "built_in_report_service_legacy_fallback"])
         EXCEPT !.pc = "end",
                !.report = [report_type |-> r.body.report_type, template |-> template,
                            data_source |-> DataSourceLabel(data),
                            data_origin |-> data.origin,
                            has_timestamp |-> data.has_timestamp]]

\* onError of the /api/prediction proxy, and of predictionApiEndpoints / legacyEndpoints
\* for every url but the current-reading one
onErrorRespond500(r) ==
  IF MayRespond(r) THEN [Send(r, ErrorResponse) EXCEPT !.pc = "end"]
  ELSE [r EXCEPT !.pc = "end"]

\* onError of predictionApiEndpoints / legacyEndpoints
onErrorEndpoints(r) ==
  IF r.route \in CurrentRoutes THEN [Call(r, "sensor") EXCEPT !.pc = "sensor"]
  ELSE onErrorRespond500(r)

\* onError of the /api/reports proxy: rewrites req.url and returns
onErrorApiReports(r) == [r EXCEPT !.pc = "end"]

\* onError of the legacy /reports proxy, for POST .../generate
onErrorLegacyReports(r) ==
  IF MayRespond(r) THEN [Call(r, "prediction") EXCEPT !.pc = "rpt_pred"]
  ELSE [r EXCEPT !.pc = "end"]

onError(r) ==
  CASE r.route \in predictionPrefix -> onErrorRespond500(r)
    [] r.route \in predictionApiEndpoints \cup legacyEndpoints -> onErrorEndpoints(r)
    [] r.route \in apiReports -> onErrorApiReports(r)
    [] r.route \in legacyReports -> onErrorLegacyReports(r)

\* the upstream answered: http-proxy pipes status and body to the client
ProxyRes(s) ==
  /\ req[s].pc = "proxy"
  /\ \E o \in HttpOutcome :
       req' = [req EXCEPT ![s] =
                 [Send(Resolved(req[s], o), Relay(Target(req[s].route), o))
                    EXCEPT !.pc = "relayed"]]
  /\ UNCHANGED <<poll, ls, panel, oee, syn, doc, svc, rl, view, app>>

\* the proxied call failed before any response (refused, timed out): onError runs
ProxyError(s) ==
  /\ req[s].pc = "proxy"
  /\ \E o \in NetFail : req' = [req EXCEPT ![s] = onError(Resolved(req[s], o))]
  /\ UNCHANGED <<poll, ls, panel, oee, syn, doc, svc, rl, view, app>>

\* the connection broke while the upstream's response was being piped: onError runs
\* with the headers already sent
ProxyLateError(s) ==
  /\ req[s].pc = "relayed"
  /\ req' = [req EXCEPT ![s] = onError(Resolved(req[s], "reset"))]
  /\ UNCHANGED <<poll, ls, panel, oee, syn, doc, svc, rl, view, app>>

\* .then of the sensor API fallback
SensorThen(s) ==
  /\ req[s].pc = "sensor"
  /\ \E o \in Shape2xx :
       LET r == Resolved(req[s], o)
       IN  req' = [req EXCEPT ![s] =
                     IF MayRespond(r) THEN [Send(r, Relay("sensor", o)) EXCEPT !.pc = "end"]
                     ELSE [r EXCEPT !.pc = "end"]]
  /\ UNCHANGED <<poll, ls, panel, oee, syn, doc, svc, rl, view, app>>

\* .catch of the sensor API fallback: the emergency mock
SensorCatch(s) ==
  /\ req[s].pc = "sensor"
  /\ \E o \in Outcome \ Shape2xx :
       LET r == Resolved(req[s], o)
       IN  req' = [req EXCEPT ![s] =
                     IF MayRespond(r)
                     THEN [Send(r, MockResponse(EmergencySource(r.route))) EXCEPT !.pc = "end"]
                     ELSE [r EXCEPT !.pc = "end"]]
  /\ UNCHANGED <<poll, ls, panel, oee, syn, doc, svc, rl, view, app>>

\* handleBuiltInReportGeneration: the prediction API call settled
BuiltInPrediction(s) ==
  /\ req[s].pc = "rpt_pred"
  /\ \E o \in Outcome, ts \in BOOLEAN :
       LET r == Resolved(req[s], o)
       IN  req' = [req EXCEPT ![s] =
                     IF AxiosResolves(o) THEN RenderBuiltIn(r, DataOf("prediction", o, ts))
                     ELSE [Call(r, "sensor") EXCEPT !.pc = "rpt_sensor"]]
  /\ UNCHANGED <<poll, ls, panel, oee, syn, doc, svc, rl, view, app>>

\* handleBuiltInReportGeneration: the sensor API call settled
BuiltInSensor(s) ==
  /\ req[s].pc = "rpt_sensor"
  /\ \E o \in Outcome, ts \in BOOLEAN :
       LET r == Resolved(req[s], o)
       IN  req' = [req EXCEPT ![s] =
                     IF AxiosResolves(o) THEN RenderBuiltIn(r, DataOf("sensor", o, ts))
                     ELSE RenderBuiltIn(r, EmptyData)]
  /\ UNCHANGED <<poll, ls, panel, oee, syn, doc, svc, rl, view, app>>

----------------------------------------------------------------------------
(* OEEDisplay state and synthetic payloads: initial values *)

\* a prediction or draw that is not there (defectPrediction === null)
NoPrediction == -1

\* the inputs of one scoring; sensor fields that are absent read as 0 ((x || 0));
\* defect is defect_probability in percent; a, p, q are the draws of
\* generateSimulatedOEE in tenths of a percent
NoInput == [tier |-> "none", tbl_speed |-> 0, ejection |-> 0, waste |-> 0, produced |-> 0,
            main_comp |-> 0, stiffness |-> 0, SREL |-> 0, defect |-> NoPrediction,
            quality_class |-> "none", buffer |-> "none", a |-> 0, p |-> 0, q |-> 0]

\* useState({ overall: 85.2, availability: 92.1, performance: 88.7, quality: 93.6 });
\* sub-scores in tenths of a percent, overall in units of 10^-7 percent
InitialOeeData == [overall |-> 852000000, availability |-> 921, performance |-> 887,
                   quality |-> 936]

\* the sub-scores before they are rounded: availability in tenths, performance in
\* units of 10^-5, quality in units of 10^-3
NoRaw == [availability |-> 0, performance |-> 0, quality |-> 0]

\* OEEDisplay before its first scoring; n counts the scorings, historicalOEE holds
\* the number of the scoring that appended each entry
OeeInit == [pending |-> NoInput, kind |-> "initial", input |-> NoInput, raw |-> NoRaw,
            oeeData |-> InitialOeeData, historicalOEE |-> << >>, n |-> 0]

\* the numeric fields of the mock readings
SensorFields == {"waste", "produced", "ejection", "tbl_speed", "stiffness", "SREL", "main_comp"}

\* no synthetic payload has been generated.  draw, cdraw: results of Math.random()
\* in thousandths; branch: which class / risk level was drawn; base: the reading a
\* fallback forecast starts from; value in thousandths, confidence in millionths
NoPayload == [kind |-> "none", base |-> "none", draw |-> [f \in SensorFields |-> 0],
              branch |-> 1, cdraw |-> 0, fields |-> {},
              value |-> [f \in SensorFields |-> 0], confidence |-> NoPrediction]

\* no report has been requested: the report type asked for, sensorData as the
\* template receives it, and the answers given so far
NoDoc == [report_type |-> "none", data |-> [f \in SensorFields |-> "absent"],
          renders |-> << >>]

\* the upstreams GET /api-status checks, in the order of its services array
ServiceNames == <<"Prediction API", "Sensor API", "Report Generation API">>

Services == {ServiceNames[i] : i \in 1..Len(ServiceNames)}

\* no status request has arrived: the outcome of each health call, what checkService
\* returned for it, and the answer (code 0: nothing written)
NoStatusRequest == [pc |-> "idle", checks |-> [n \in Services |-> "none"],
                    entries |-> [n \in Services |-> "none"], code |-> 0,
                    services |-> << >>]

\* useState(null) of currentAction; speed and compression adjustments in tenths,
\* fill adjustment in hundredths
NoAction == [speedAdjustment |-> 0, compressionAdjustment |-> 0, fillAdjustment |-> 0,
             apiStatus |-> "null"]

\* RLControl after mount: useState(null), useState('active'); pc tells whether a
\* generateFallbackAction is waiting for /api/current
RlInit == [pc |-> "idle", currentAction |-> NoAction, safetyStatus |-> "active"]

\* ReportsView when its mount effect has run: fetchSystemStatus is waiting for
\* /api/reports/health (health), no POST /api/reports/generate is in flight
ViewInit == [systemStatus |-> "null", health |-> "pending",
             generatingReportType |-> "null", generatedReport |-> "null",
             selectedReport |-> "null", error |-> "null", inflight |-> << >>]

\* App after mount: useState(0), useState(true), useState(false); last is the
\* event handled last and from the panel index before it
AppInit == [currentPanelIndex |-> 0, showHomePage |-> TRUE, showDetailedReport |-> FALSE,
            last |-> "mount", from |-> 0]

----------------------------------------------------------------------------
(* The gateway on its own: requests arrive from any client *)

Routes == Proxied \cup mockEndpoints

BodiesOf(route) ==
  IF route \in apiReports \cup legacyReports THEN {ReportBody(n) : n \in ReportNames}
  ELSE {NoBody}

NoPolls == << >>

\* the /api/prediction/<name> calls the panels make
SubCallNames == {"current", "forecast", "defect", "quality", "buffer-status", "rl_action"}

\* no panel is mounted
NoPanel == [kind |-> "none", pc |-> "unmounted",
            sub |-> [n \in SubCallNames |-> "unissued"],
            fallback |-> "unissued", used |-> {}, result |-> "none"]

LsInit == [sensorData |-> "null", predictionApiStatus |-> "null"]

\* a client opens a connection and sends a request
Request(s) ==
  /\ req[s].pc = "free"
  /\ \E route \in Routes : \E body \in BodiesOf(route) :
       req' = [req EXCEPT ![s] = Accept(route, body)]
  /\ UNCHANGED <<poll, ls, panel, oee, syn, doc, svc, rl, view, app>>

Init ==
  /\ req = [s \in 1..MaxReq |-> FreeReq]
  /\ app = AppInit
  /\ view = ViewInit
  /\ rl = RlInit
  /\ svc = NoStatusRequest
  /\ doc = NoDoc
  /\ poll = NoPolls
  /\ ls = LsInit
  /\ panel = NoPanel
  /\ oee = OeeInit
  /\ syn = NoPayload

Next ==
  \/ \E s \in DOMAIN req : Request(s)
  \/ \E s \in DOMAIN req : ProxyRes(s)
  \/ \E s \in DOMAIN req : ProxyError(s)
  \/ \E s \in DOMAIN req : ProxyLateError(s)
  \/ \E s \in DOMAIN req : SensorThen(s)
  \/ \E s \in DOMAIN req : SensorCatch(s)
  \/ \E s \in DOMAIN req : BuiltInPrediction(s)
  \/ \E s \in DOMAIN req : BuiltInSensor(s)

Spec == Init /\ [][Next]_vars

----------------------------------------------------------------------------
(* LiveSensors (fetchData), polling the gateway *)

\* polls of the panel in flight at the same time
MaxPolls == 1

\* the endpoints fetchData tries, in the order of its try blocks; the last is the
\* in-component generateMockData
TierChain == <<"/api/prediction/current", "/api/current", "/api/mock/current", "local">>

\* a fetchData that skips the first try block after it has seen it fail
FirstTierSticky == IF ls.predictionApiStatus \in {"error", "offline"} THEN 2 ELSE 1

\* fetchData starts at its first try block on every invocation
FirstTier == 1

\* a fetchData that goes from the second try block straight to the local simulation
NextTierSkipping(t) == IF t = 2 THEN 4 ELSE t + 1

\* falling out of try block t leads to the next one
NextTier(t) == t + 1

\* the condition under which try block t accepts the response and returns
ValidFor(t, response) ==
  /\ response.code = 200
  /\ CASE t = 1 -> response.shape = "sensors"
       [] t = 2 -> response.shape = "wrapped"
       [] t = 3 -> response.shape = "wrapped"
       [] OTHER -> FALSE

\* a fetchData whose last resort leaves the label the first catch block set
StatusLabelKeepsError(t) ==
  CASE t = 1 -> "connected"
    [] t = 2 -> "fallback"
    [] t = 3 -> "mock"
    [] OTHER -> "error"

\* setPredictionApiStatus(...) of try block t
StatusLabel(t) ==
  CASE t = 1 -> "connected"
    [] t = 2 -> "fallback"
    [] t = 3 -> "mock"
    [] OTHER -> "offline"

\* the labels under which the panel shows data that did not come from the first tier
DegradedLabels == {"error", "fallback", "mock", "offline"}

\* afterFailure: the panel showed a degraded label when the poll started
IdlePoll == [pc |-> "idle", tier |-> 0, tried |-> << >>, providers |-> << >>,
             afterFailure |-> FALSE, result |-> 0]

\* the providers the gateway called for a request
ProvidersOf(r) == [i \in 1..Len(r.calls) |-> r.calls[i][1]]

MarkLast(tried, verdict) == [tried EXCEPT ![Len(tried)] = <<@[1], verdict>>]

\* an interval callback that waits for the invocation in flight to return
IntervalFiresWhenIdle(p) == \A q \in DOMAIN poll : poll[q].pc # "wait"

\* setInterval(fetchData, 6000) calls fetchData whether or not an earlier
\* invocation has returned
IntervalFires(p) == TRUE

\* setInterval / mount: one more invocation of fetchData
fetchData(p) ==
  /\ poll[p].pc \in {"idle", "done"}
  /\ IntervalFires(p)
  /\ poll' = [poll EXCEPT ![p] =
                [pc |-> "wait", tier |-> FirstTier,
                 tried |-> << <<TierChain[FirstTier], "pending">> >>,
                 providers |-> << >>,
                 afterFailure |-> ls.predictionApiStatus \in DegradedLabels,
                 result |-> 0]]
  /\ req' = [req EXCEPT ![p] = FreeReq]
  /\ UNCHANGED <<ls, panel, oee, syn, doc, svc, rl, view, app>>

\* the gateway accepts the axios.get of the poll's current try block
LsRequest(p) ==
  /\ poll[p].pc = "wait"
  /\ req[p].pc = "free"
  /\ req' = [req EXCEPT ![p] = Accept(TierChain[poll[p].tier], NoBody)]
  /\ UNCHANGED <<poll, ls, panel, oee, syn, doc, svc, rl, view, app>>

\* try block t did not return: fall through to the next one, or to the local
\* simulation after the last.  `rejected`: axios threw (the catch ran).
Advance(p, rejected) ==
  LET t == poll[p].tier
      n == NextTier(t)
      failed == MarkLast(poll[p].tried, "failed")
      called == poll[p].providers \o ProvidersOf(req[p])
      status == IF t = 1 /\ rejected THEN "error" ELSE ls.predictionApiStatus
  IN  IF TierChain[n] = "local"
      THEN /\ poll' = [poll EXCEPT ![p] =
                         [@ EXCEPT !.pc = "done", !.tier = n, !.result = n,
                                   !.tried = Append(failed, <<"local", "ok">>),
                                   !.providers = Append(called, "synthetic")]]
           /\ ls' = [sensorData |-> "synthetic", predictionApiStatus |-> StatusLabel(n)]
           /\ req' = [req EXCEPT ![p] = FreeReq]
      ELSE /\ poll' = [poll EXCEPT ![p] =
                         [@ EXCEPT !.tier = n, !.providers = called,
                                   !.tried = Append(failed, <<TierChain[n], "pending">>)]]
           /\ ls' = [ls EXCEPT !.predictionApiStatus = status]
           /\ req' = [req EXCEPT ![p] = FreeReq]

\* the gateway's response reached the try block that awaits it; the connection of a
\* call that has returned is closed
TierSettled(p) ==
  /\ poll[p].pc = "wait"
  /\ headersSent(req[p])
  /\ IF ValidFor(poll[p].tier, req[p].resp)
     THEN /\ poll' = [poll EXCEPT ![p] =
                        [@ EXCEPT !.pc = "done", !.result = poll[p].tier,
                                  !.tried = MarkLast(@, "ok"),
                                  !.providers = @ \o ProvidersOf(req[p])]]
          /\ ls' = [sensorData |-> req[p].resp.origin,
                    predictionApiStatus |-> StatusLabel(poll[p].tier)]
          /\ req' = [req EXCEPT ![p] = FreeReq]
     ELSE Advance(p, req[p].resp.code # 200)
  /\ UNCHANGED <<panel, oee, syn, doc, svc, rl, view, app>>

\* the axios call failed without a response: its timeout elapsed, or the gateway
\* could not be reached
TierFailed(p) ==
  /\ poll[p].pc = "wait"
  /\ ~headersSent(req[p])
  /\ Advance(p, TRUE)
  /\ UNCHANGED <<panel, oee, syn, doc, svc, rl, view, app>>

LiveInit ==
  /\ req = [s \in 1..MaxPolls |-> FreeReq]
  /\ app = AppInit
  /\ view = ViewInit
  /\ rl = RlInit
  /\ svc = NoStatusRequest
  /\ doc = NoDoc
  /\ poll = [s \in 1..MaxPolls |-> IdlePoll]
  /\ ls = LsInit
  /\ panel = NoPanel
  /\ oee = OeeInit
  /\ syn = NoPayload

LiveNext ==
  \/ \E p \in DOMAIN poll : fetchData(p)
  \/ \E p \in DOMAIN poll : LsRequest(p)
  \/ \E p \in DOMAIN poll : TierSettled(p)
  \/ \E p \in DOMAIN poll : TierFailed(p)
  \/ \E s \in DOMAIN req : ProxyRes(s)
  \/ \E s \in DOMAIN req : ProxyError(s)
  \/ \E s \in DOMAIN req : ProxyLateError(s)
  \/ \E s \in DOMAIN req : SensorThen(s)
  \/ \E s \in DOMAIN req : SensorCatch(s)

LiveSpec == LiveInit /\ [][LiveNext]_vars

----------------------------------------------------------------------------
(* Two invocations of fetchData of one LiveSensors panel: the one made at mount
   and the one the interval makes 6 s later *)

\* fetchData() at mount
FirstPoll ==
  /\ poll[1].pc = "idle"
  /\ fetchData(1)

\* the first callback of setInterval(fetchData, 6000)
LaterPoll ==
  /\ poll[1].pc # "idle"
  /\ poll[2].pc = "idle"
  /\ fetchData(2)

OverlapInit ==
  /\ req = [s \in {1, 2} |-> FreeReq]
  /\ app = AppInit
  /\ view = ViewInit
  /\ rl = RlInit
  /\ doc = NoDoc
  /\ svc = NoStatusRequest
  /\ poll = [s \in {1, 2} |-> IdlePoll]
  /\ ls = LsInit
  /\ panel = NoPanel
  /\ oee = OeeInit
  /\ syn = NoPayload

OverlapNext ==
  \/ FirstPoll
  \/ LaterPoll
  \/ \E p \in {1, 2} : LsRequest(p)
  \/ \E p \in {1, 2} : TierSettled(p)
  \/ \E p \in {1, 2} : TierFailed(p)
  \/ \E s \in {1, 2} : ProxyRes(s)
  \/ \E s \in {1, 2} : ProxyError(s)
  \/ \E s \in {1, 2} : ProxyLateError(s)
  \/ \E s \in {1, 2} : SensorThen(s)
  \/ \E s \in {1, 2} : SensorCatch(s)

OverlapSpec == OverlapInit /\ [][OverlapNext]_vars

----------------------------------------------------------------------------
(* ForecastPanel, OEEDisplay and RLControl: one fetch cycle of a mounted panel *)

\* the /api/prediction/<name> calls each panel's fetch function makes
SubCallsOf(kind) ==
  CASE kind = "forecast" -> {"forecast", "defect", "quality"}
    [] kind = "oee"      -> {"current", "defect", "quality", "buffer-status"}
    [] kind = "rl"       -> {"buffer-status", "rl_action"}

\* the calls the fetch function issues before it awaits anything
IssuedAtStart(kind) == IF kind = "rl" THEN {"buffer-status"} ELSE SubCallsOf(kind)

\* how a sub-call ends, as the code that consumes it tells the cases apart:
\*   "valid"     2xx, the body has the field the panel reads
\*   "missing"   2xx, the body is an object without that field
\*   "null"      2xx, the body is null: reading a field of it throws
\*   "rejected"  axios rejected (no response, timeout, non-2xx status)
SubOutcome == {"valid", "missing", "null", "rejected"}

\* the axios.get('/api/current') of the fallback paths: "success" is a body with
\* status === 'success', "junk" any other 2xx body
FallbackOutcome == {"success", "junk", "rejected"}

\* the order in which the fetch function looks at the settled results
ProcessingOrder(kind) ==
  IF kind = "forecast" THEN <<"forecast", "defect", "quality">>
  ELSE <<"current", "defect", "quality", "buffer-status">>

\* reading <result>.value.data.<field> throws for a null body; bufferRes.value.data
\* is only tested for truthiness
Throws(name, o) == o = "null" /\ name # "buffer-status"

\* position of the first result whose processing throws (0: none does)
FirstThrow(kind, sub) ==
  LET order == ProcessingOrder(kind)
      bad == {i \in 1..Len(order) : Throws(order[i], sub[order[i]])}
  IN  IF bad = {} THEN 0 ELSE CHOOSE i \in bad : \A j \in bad : i <= j

\* the results the fetch function has put into component state when it stops at
\* position `stop` (0: it processed them all); the reading of OEEDisplay is used
\* by the calculation that follows, not stored
Stored(kind, sub, stop) ==
  LET order == ProcessingOrder(kind)
  IN  {order[i] : i \in {j \in 1..Len(order) :
                           /\ stop = 0 \/ j < stop
                           /\ sub[order[j]] = "valid"
                           /\ order[j] # "current"}}

\* useEffect: the panel mounts and its fetch function runs
Mount(kind) ==
  /\ panel.pc \in {"unmounted", "done"}
  /\ panel' = [NoPanel EXCEPT
                 !.kind = kind,
                 !.pc = IF kind = "rl" THEN "await_buffer" ELSE "allSettled",
                 !.sub = [n \in SubCallNames |->
                            IF n \in IssuedAtStart(kind) THEN "pending" ELSE "unissued"]]
  /\ UNCHANGED <<req, poll, ls, oee, syn, doc, svc, rl, view, app>>

\* one of the calls inside Promise.allSettled settles
SubCallSettles(name) ==
  /\ panel.pc = "allSettled"
  /\ panel.sub[name] = "pending"
  /\ \E o \in SubOutcome : panel' = [panel EXCEPT !.sub[name] = o]
  /\ UNCHANGED <<req, poll, ls, oee, syn, doc, svc, rl, view, app>>

AllSettled == \A n \in SubCallsOf(panel.kind) : panel.sub[n] # "pending"

\* ForecastPanel.fetchPredictions, from the await to the end of the try block
fetchPredictions ==
  /\ panel.kind = "forecast" /\ panel.pc = "allSettled" /\ AllSettled
  /\ LET stop == FirstThrow("forecast", panel.sub)
     IN  panel' = IF stop # 0
                  THEN [panel EXCEPT !.pc = "fallback", !.fallback = "pending",
                                     !.used = Stored("forecast", panel.sub, stop)]
                  ELSE [panel EXCEPT !.pc = "done",
                                     !.used = Stored("forecast", panel.sub, 0),
                                     !.result = IF panel.sub["forecast"] = "valid"
                                                THEN "prediction" ELSE "none"]
  /\ UNCHANGED <<req, poll, ls, oee, syn, doc, svc, rl, view, app>>

\* ForecastPanel.generateFallbackData
generateFallbackData ==
  /\ panel.kind = "forecast" /\ panel.pc = "fallback"
  /\ \E o \in FallbackOutcome :
       panel' = [panel EXCEPT !.pc = "done", !.fallback = o,
                              !.result = IF o = "success" THEN "synthetic" ELSE "none"]
  /\ UNCHANGED <<req, poll, ls, oee, syn, doc, svc, rl, view, app>>

\* OEEDisplay.calculateComprehensiveOEE after the reading is known: the other
\* results are stored, then the OEE is calculated from the reading, or simulated
\* when something threw or there is no reading
FinishOEE(p, reading) ==
  LET stop == FirstThrow("oee", p.sub)
  IN  [p EXCEPT !.pc = "done",
                !.used = Stored("oee", p.sub, stop)
                           \cup (IF stop = 0 /\ reading = "prediction" THEN {"current"} ELSE {}),
                !.result = IF stop # 0 \/ reading = "none" THEN "synthetic" ELSE reading]

\* OEEDisplay.calculateComprehensiveOEE, from the await to the fallback call or the end
calculateComprehensiveOEE ==
  /\ panel.kind = "oee" /\ panel.pc = "allSettled" /\ AllSettled
  /\ panel' = CASE panel.sub["current"] = "valid" -> FinishOEE(panel, "prediction")
                [] panel.sub["current"] = "null" -> FinishOEE(panel, "none")
                [] OTHER -> [panel EXCEPT !.pc = "oee_fallback", !.fallback = "pending"]
  /\ UNCHANGED <<req, poll, ls, oee, syn, doc, svc, rl, view, app>>

\* OEEDisplay: the "Fallback to legacy sensor API" call settles
OEEFallbackSettles ==
  /\ panel.pc = "oee_fallback"
  /\ \E o \in FallbackOutcome :
       panel' = FinishOEE([panel EXCEPT !.fallback = o],
                          IF o = "success" THEN "fallback" ELSE "none")
  /\ UNCHANGED <<req, poll, ls, oee, syn, doc, svc, rl, view, app>>

\* RLControl.fetchRLData: await axios.get('/api/prediction/buffer-status')
BufferStatusSettles ==
  /\ panel.pc = "await_buffer"
  /\ \E o \in SubOutcome :
       panel' = IF o = "rejected"
                THEN [panel EXCEPT !.sub["buffer-status"] = o,
                                   !.pc = "fallback", !.fallback = "pending"]
                ELSE [panel EXCEPT !.sub["buffer-status"] = o,
                                   !.sub["rl_action"] = "pending",
                                   !.pc = "await_action",
                                   !.used = IF o = "valid" THEN {"buffer-status"} ELSE {}]
  /\ UNCHANGED <<req, poll, ls, oee, syn, doc, svc, rl, view, app>>

\* RLControl.fetchRLData: the rl_action call settles; every failure of it ends in
\* generateFallbackAction
RLActionSettles ==
  /\ panel.pc = "await_action"
  /\ \E o \in SubOutcome :
       panel' = IF o = "valid"
                THEN [panel EXCEPT !.sub["rl_action"] = o, !.pc = "done",
                                   !.used = @ \cup {"rl_action"}, !.result = "prediction"]
                ELSE [panel EXCEPT !.sub["rl_action"] = o,
                                   !.pc = "fallback", !.fallback = "pending"]
  /\ UNCHANGED <<req, poll, ls, oee, syn, doc, svc, rl, view, app>>

\* RLControl.generateFallbackAction
generateFallbackAction ==
  /\ panel.kind = "rl" /\ panel.pc = "fallback"
  /\ \E o \in FallbackOutcome :
       panel' = [panel EXCEPT !.pc = "done", !.fallback = o,
                              !.result = CASE o = "success"  -> "fallback"
                                           [] o = "rejected" -> "synthetic"
                                           [] OTHER          -> "none"]
  /\ UNCHANGED <<req, poll, ls, oee, syn, doc, svc, rl, view, app>>

PanelKinds == {"forecast", "oee", "rl"}

PanelInit ==
  /\ req = << >>
  /\ app = AppInit
  /\ view = ViewInit
  /\ rl = RlInit
  /\ svc = NoStatusRequest
  /\ doc = NoDoc
  /\ poll = NoPolls
  /\ ls = LsInit
  /\ panel = NoPanel
  /\ oee = OeeInit
  /\ syn = NoPayload

PanelNext ==
  \/ \E kind \in PanelKinds : Mount(kind)
  \/ \E name \in SubCallNames : SubCallSettles(name)
  \/ fetchPredictions
  \/ generateFallbackData
  \/ calculateComprehensiveOEE
  \/ OEEFallbackSettles
  \/ BufferStatusSettles
  \/ RLActionSettles
  \/ generateFallbackAction

PanelSpec == PanelInit /\ [][PanelNext]_vars

----------------------------------------------------------------------------
(* OEEDisplay: the OEE scoring and its history *)

\* scorings of one mounted OEEDisplay
MaxScorings == 22

Min(x, y) == IF x < y THEN x ELSE y

Max(x, y) == IF x > y THEN x ELSE y

\* floor(m * p / 10^8) for m, p < 10^8, in 32-bit steps
FloorMulDiv8(m, p) ==
  LET m1 == m \div 10000
      m0 == m % 10000
      p1 == p \div 10000
      p0 == p % 10000
      t1 == m1 * p0 + m0 * p1 + ((m0 * p0) \div 10000)
  IN  m1 * p1 + (t1 \div 10000)

\* Math.round(x * 10) / 10 for x >= 0 given in units of 1/scale; the result in tenths
RoundToTenths(x, scale) == (x * 10 + scale \div 2) \div scale

\* lines 113-124; tenths of a percent
availabilityPenalizedLess(in) ==
  980 - (IF in.tbl_speed < 5 THEN 120 ELSE 0)
      - (IF in.ejection > 180 THEN 40 ELSE 0)
      - (IF in.waste > 8 THEN 20 ELSE 0)
      - (IF in.buffer = "not_ready" THEN 30 ELSE 0)

availabilityPenalized(in) ==
  980 - (IF in.tbl_speed < 5 THEN 120 ELSE 0)
      - (IF in.ejection > 180 THEN 40 ELSE 0)
      - (IF in.waste > 8 THEN 20 ELSE 0)
      - (IF in.produced = 0 THEN 150 ELSE 0)
      - (IF in.buffer = "not_ready" THEN 30 ELSE 0)

\* Math.min((actual / target) * 100, 105), in whole percent; the inputs are multiples
\* of target / 10, for which the quotient is whole
Efficiency(actual, target) == Min((actual * 100) \div target, 105)

\* lines 127-146 without the stiffness penalty
performancePenalizedLess(in) ==
  LET weighted == 70000 * Efficiency(in.tbl_speed, 90) + 30000 * Efficiency(in.produced, 700)
  IN  IF in.main_comp > 25 \/ in.main_comp < 8 THEN (weighted * 99) \div 100 ELSE weighted

\* lines 127-146; units of 10^-5 percent
performancePenalized(in) ==
  LET weighted == 70000 * Efficiency(in.tbl_speed, 90) + 30000 * Efficiency(in.produced, 700)
      compressed == IF in.main_comp > 25 \/ in.main_comp < 8
                    THEN (weighted * 99) \div 100 ELSE weighted
  IN  IF in.stiffness < 70 THEN (compressed * 98) \div 100 ELSE compressed

\* a scoring that ignores the quality class
qualityMultiplierIgnored(class) == 100

\* lines 176-180: the multiplier in percent, 98 for a class that is not in the table
qualityMultiplier(class) ==
  CASE class = "High"   -> 103
    [] class = "Medium" -> 100
    [] class = "Low"    -> 95
    [] OTHER            -> 98

\* lines 149-183; units of 10^-3 percent
qualityAssessed(in) ==
  LET fromDefect == Max(90000, (100 - in.defect) * 1000)
      fromSensors == 97000
        - (IF in.main_comp > 30 \/ in.main_comp < 5 THEN 2000 ELSE 0)
        - (IF in.SREL > 12 \/ in.SREL < 1 THEN 1000 ELSE 0)
        - (IF in.stiffness < 40 \/ in.stiffness > 220 THEN 2000 ELSE 0)
        - (IF in.ejection > 180 THEN 1000 ELSE 0)
        - Min(in.waste * 300, 3000)
      quality == IF in.defect # NoPrediction THEN fromDefect ELSE fromSensors
  IN  IF in.quality_class # "none"
      THEN (quality * qualityMultiplier(in.quality_class)) \div 100
      ELSE quality

\* a scoring that leaves its sub-scores as they are
Unclamped(x, lo, hi) == x

\* lines 191-193: Math.max(lo, Math.min(hi, x))
Clamp(x, lo, hi) == Max(lo, Min(hi, x))

\* lines 191-193: the bounds of the sub-scores, in tenths of a percent
ClampRange == [availability |-> [lo |-> 850, hi |-> 995],
               performance  |-> [lo |-> 800, hi |-> 1050],
               quality      |-> [lo |-> 920, hi |-> 998]]

\* the clamped sub-scores of calculateOEEFromRealData, before rounding
ClampedSubScores(in) ==
  [availability |-> Clamp(availabilityPenalized(in),
                          ClampRange.availability.lo, ClampRange.availability.hi),
   performance  |-> Clamp(performancePenalized(in),
                          10000 * ClampRange.performance.lo, 10000 * ClampRange.performance.hi),
   quality      |-> Clamp(qualityAssessed(in),
                          100 * ClampRange.quality.lo, 100 * ClampRange.quality.hi)]

\* lines 196-203: overall from the unrounded sub-scores, everything rounded to one
\* decimal
RoundedScore(raw) ==
  [overall |-> 1000000 * ((FloorMulDiv8(raw.availability * raw.quality, raw.performance)
                             + 5000) \div 10000),
   availability |-> raw.availability,
   performance  |-> RoundToTenths(raw.performance, 100000),
   quality      |-> RoundToTenths(raw.quality, 1000)]

\* generateSimulatedOEE: overall is the product of the draws, not rounded
SimulatedScore(in) ==
  [overall |-> in.a * in.p * in.q,
   availability |-> in.a, performance |-> in.p, quality |-> in.q]

\* a history that keeps 21 entries
KeepLast21(seq) == IF Len(seq) > 21 THEN SubSeq(seq, Len(seq) - 20, Len(seq)) ELSE seq

\* newData.slice(-20)
KeepLast20(seq) == IF Len(seq) > 20 THEN SubSeq(seq, Len(seq) - 19, Len(seq)) ELSE seq

\* updateHistoricalOEE: [...prev, entry].slice(-20)
updateHistoricalOEE(prev, entry) == KeepLast20(Append(prev, entry))

\* status thresholds with the earlier values
getOEEStatusBefore(value) ==
  CASE value >= 800000000 -> "excellent"
    [] value >= 700000000 -> "good"
    [] value >= 600000000 -> "fair"
    [] OTHER -> "poor"

\* getOEEStatus; value in units of 10^-7 percent
getOEEStatus(value) ==
  CASE value >= 750000000 -> "excellent"
    [] value >= 650000000 -> "good"
    [] value >= 550000000 -> "fair"
    [] OTHER -> "poor"

\* the snapshot { tbl_speed: 0, ejection: 200, waste: 10, produced: 0 } with every
\* other field absent and no predictions
ExampleSnapshot ==
  [NoInput EXCEPT !.tier = "real", !.tbl_speed = 0, !.ejection = 200, !.waste = 10,
                  !.produced = 0]

\* the sensor readings and predictions a scoring is run on
RealInputs ==
  {ExampleSnapshot} \cup
  [tier : {"real"},
   tbl_speed : {0, 9, 63, 90, 117}, ejection : {100, 200}, waste : {0, 4, 10},
   produced : {0, 350, 1050}, main_comp : {4, 15, 28}, stiffness : {30, 60, 100},
   SREL : {3, 13}, defect : {NoPrediction, 0, 5, 9, 100},
   quality_class : {"none", "High", "Medium", "Low", "Unknown"},
   buffer : {"none", "ready", "not_ready"}, a : {0}, p : {0}, q : {0}]

\* the draws of generateSimulatedOEE: 94 + [0, 5), 92 + [0, 8), 96 + [0, 3)
SimulatedInputs ==
  {[NoInput EXCEPT !.tier = "simulated", !.a = a, !.p = p, !.q = q] :
     a \in {940, 965, 989}, p \in {920, 960, 999}, q \in {960, 975, 989}}

\* the inputs of the polls of a OEEDisplay that is left mounted
FewInputs ==
  {in \in RealInputs : /\ in.tbl_speed \in {0, 90} /\ in.produced = (in.tbl_speed \div 90) * 1050
                       /\ in.ejection = 100 /\ in.waste = 0 /\ in.main_comp = 15
                       /\ in.stiffness = 100 /\ in.SREL = 3 /\ in.defect = NoPrediction
                       /\ in.quality_class = "none" /\ in.buffer = "none"}
    \cup {in \in SimulatedInputs : in.a = 965 /\ in.p = 960 /\ in.q = 975}

\* calculateComprehensiveOEE, from "if (sensorData)" on: score, setOeeData,
\* updateHistoricalOEE
ScoreFromRealData ==
  /\ oee.pending.tier = "real"
  /\ LET raw == ClampedSubScores(oee.pending)
     IN  oee' = [oee EXCEPT !.pending = NoInput, !.kind = "real", !.input = oee.pending,
                            !.raw = raw, !.oeeData = RoundedScore(raw), !.n = @ + 1,
                            !.historicalOEE = updateHistoricalOEE(@, oee.n + 1)]
  /\ UNCHANGED <<req, poll, ls, panel, syn, doc, svc, rl, view, app>>

\* the catch block of calculateComprehensiveOEE: generateSimulatedOEE, setOeeData,
\* updateHistoricalOEE
ScoreSimulated ==
  /\ oee.pending.tier = "simulated"
  /\ oee' = [oee EXCEPT !.pending = NoInput, !.kind = "simulated", !.input = oee.pending,
                         !.raw = NoRaw, !.oeeData = SimulatedScore(oee.pending), !.n = @ + 1,
                         !.historicalOEE = updateHistoricalOEE(@, oee.n + 1)]
  /\ UNCHANGED <<req, poll, ls, panel, syn, doc, svc, rl, view, app>>

\* setInterval(calculateComprehensiveOEE, 8000): the fetches of one more poll have
\* settled
PollSettled ==
  /\ oee.pending.tier = "none"
  /\ oee.n < MaxScorings
  /\ \E in \in FewInputs : oee' = [oee EXCEPT !.pending = in]
  /\ UNCHANGED <<req, poll, ls, panel, syn, doc, svc, rl, view, app>>

\* one scoring, on any input
ScoreInit ==
  /\ req = << >>
  /\ app = AppInit
  /\ view = ViewInit
  /\ rl = RlInit
  /\ svc = NoStatusRequest
  /\ doc = NoDoc
  /\ poll = NoPolls
  /\ ls = LsInit
  /\ panel = NoPanel
  /\ oee \in {[OeeInit EXCEPT !.pending = in] : in \in RealInputs \cup SimulatedInputs}
  /\ syn = NoPayload

ScoreNext ==
  \/ ScoreFromRealData
  \/ ScoreSimulated

ScoreSpec == ScoreInit /\ [][ScoreNext]_vars

\* a OEEDisplay left mounted, poll after poll
HistoryInit ==
  /\ req = << >>
  /\ app = AppInit
  /\ view = ViewInit
  /\ rl = RlInit
  /\ svc = NoStatusRequest
  /\ doc = NoDoc
  /\ poll = NoPolls
  /\ ls = LsInit
  /\ panel = NoPanel
  /\ oee = OeeInit
  /\ syn = NoPayload

HistoryNext ==
  \/ PollSettled
  \/ ScoreFromRealData
  \/ ScoreSimulated

HistorySpec == HistoryInit /\ [][HistoryNext]_vars

----------------------------------------------------------------------------
(* Generators of synthetic payloads (server.js mock endpoints, server_.js,
   LiveSensors.generateMockData, ForecastPanel.generateFallbackData) *)

\* results of Math.random(), which is in [0, 1), in thousandths
Draws == {0, 999}

ConfidenceDraws == {0, 500, 999}

\* Math.random() * width + start of the mock readings: waste: Math.random() * 3 + 1, ...
\* start in thousandths, width in units
MockFormula ==
  [waste     |-> [start |-> 1000,   width |-> 3],
   produced  |-> [start |-> 800000, width |-> 500],
   ejection  |-> [start |-> 100000, width |-> 40],
   tbl_speed |-> [start |-> 90000,  width |-> 30],
   stiffness |-> [start |-> 75000,  width |-> 50],
   SREL      |-> [start |-> 2500,   width |-> 3],
   main_comp |-> [start |-> 12000,  width |-> 8]]

\* one mock reading for the draws given
MockValues(draw) ==
  [f \in SensorFields |-> draw[f] * MockFormula[f].width + MockFormula[f].start]

\* generateFallbackData: (sensorData.f || fallback) + (Math.random() - 0.5) * spread
FallbackFormula ==
  [waste     |-> [fallback |-> 0,      spread |-> 2],
   produced  |-> [fallback |-> 0,      spread |-> 100],
   ejection  |-> [fallback |-> 120000, spread |-> 20],
   tbl_speed |-> [fallback |-> 100000, spread |-> 10],
   stiffness |-> [fallback |-> 100000, spread |-> 10],
   SREL      |-> [fallback |-> 3500,   spread |-> 1],
   main_comp |-> [fallback |-> 15000,  spread |-> 2]]

\* the readings /api/current answers a fallback forecast with: the lowest and the
\* highest mock reading, and a reading without fields
Bases == {"lowest", "highest", "absent"}

BaseValue(base, f) ==
  CASE base = "lowest"  -> MockFormula[f].start
    [] base = "highest" -> MockFormula[f].start + 999 * MockFormula[f].width
    [] OTHER            -> FallbackFormula[f].fallback

\* one step of the forecast generateFallbackData makes
FallbackValues(base, draw) ==
  [f \in SensorFields |-> BaseValue(base, f) + (draw[f] - 500) * FallbackFormula[f].spread]

\* the keys of a mock reading
MockReadingKeys == SensorFields \cup {"timestamp"}

\* the keys of a reading of the sensor API: upstream's, passed on as they are
UpstreamKeys == {MockReadingKeys \cup {"tbl_fill", "fom"}, MockReadingKeys}

\* start + Math.random() * width, capped: Math.min(cap, ...); in millionths
ConfidenceOf(start, width, cap, r) == Min(cap * 1000, start * 1000 + r * width)

\* ForecastPanel.generateFallbackData: mockDefectConfidence by probability band
\* (< 0.3, < 0.7, else)
fallbackDefectConfidence(branch, r) ==
  CASE branch = 1 -> ConfidenceOf(900, 80, 980, r)
    [] branch = 2 -> ConfidenceOf(850, 100, 980, r)
    [] OTHER      -> ConfidenceOf(870, 90, 980, r)

\* ForecastPanel.generateFallbackData: mockConfidence by class (High, Medium, Low)
fallbackQualityConfidence(branch, r) ==
  CASE branch = 1 -> ConfidenceOf(870, 100, 970, r)
    [] branch = 2 -> ConfidenceOf(800, 120, 970, r)
    [] OTHER      -> ConfidenceOf(840, 110, 970, r)

\* server_.js /api/mock/defect: confidence by risk level (low, medium, high)
deployedDefectConfidence(branch, r) ==
  CASE branch = 1 -> ConfidenceOf(880, 100, 980, r)
    [] branch = 2 -> ConfidenceOf(820, 120, 980, r)
    [] OTHER      -> ConfidenceOf(850, 110, 980, r)

\* server_.js /api/mock/quality: confidence by class (High, Medium, Low)
deployedQualityConfidence(branch, r) ==
  CASE branch = 1 -> ConfidenceOf(850, 120, 970, r)
    [] branch = 2 -> ConfidenceOf(780, 150, 970, r)
    [] OTHER      -> ConfidenceOf(820, 130, 970, r)

\* server.js /api/mock/quality: confidence: 0.7 + Math.random() * 0.2
mockQualityConfidence(r) == 700000 + r * 200

\* a payload of the given kind made from the draws in syn
Generated(kind, fields, value, confidence) ==
  [syn EXCEPT !.kind = kind, !.fields = fields, !.value = value, !.confidence = confidence]

NoValues == NoPayload.value

\* app.get(['/api/mock/current', '/mock/current'])
MockCurrentEndpoint ==
  /\ syn.kind = "none"
  /\ syn' = Generated("reading:mock_data_service", MockReadingKeys, MockValues(syn.draw),
                       NoPrediction)
  /\ UNCHANGED <<req, poll, ls, panel, oee, doc, svc, rl, view, app>>

\* the emergency mock of the predictionApiEndpoints / legacyEndpoints onError
EmergencyMock ==
  /\ syn.kind = "none"
  /\ syn' = Generated("reading:emergency_fallback_mock", MockReadingKeys,
                       MockValues(syn.draw), NoPrediction)
  /\ UNCHANGED <<req, poll, ls, panel, oee, doc, svc, rl, view, app>>

\* LiveSensors.generateMockData
generateMockData ==
  /\ syn.kind = "none"
  /\ syn' = Generated("reading:local_simulation", MockReadingKeys, MockValues(syn.draw),
                       NoPrediction)
  /\ UNCHANGED <<req, poll, ls, panel, oee, doc, svc, rl, view, app>>

\* res.json(response.data): the sensor API's reading, as it came
SensorPassThrough ==
  /\ syn.kind = "none"
  /\ \E keys \in UpstreamKeys :
       syn' = Generated("reading:sensor_api", keys, MockValues(syn.draw), NoPrediction)
  /\ UNCHANGED <<req, poll, ls, panel, oee, doc, svc, rl, view, app>>

\* app.get(['/api/mock/forecast', '/mock/forecast']): one step of the series
MockForecastStep ==
  /\ syn.kind = "none"
  /\ syn' = Generated("forecast:mock_prediction_service", SensorFields \cup {"timestep"},
                       MockValues(syn.draw), NoPrediction)
  /\ UNCHANGED <<req, poll, ls, panel, oee, doc, svc, rl, view, app>>

\* ForecastPanel.generateFallbackData: one step of mockForecast
FallbackForecastStep ==
  /\ syn.kind = "none"
  /\ syn' = Generated("forecast:fallback", SensorFields \cup {"time", "timestep"},
                       FallbackValues(syn.base, syn.draw), NoPrediction)
  /\ UNCHANGED <<req, poll, ls, panel, oee, doc, svc, rl, view, app>>

\* server.js app.get(['/api/mock/defect', '/mock/defect']): no confidence field
MockDefectEndpoint ==
  /\ syn.kind = "none"
  /\ syn' = Generated("defect:mock_prediction_service",
                       {"defect_probability", "risk_level", "preprocessing_applied", "source"},
                       NoValues, NoPrediction)
  /\ UNCHANGED <<req, poll, ls, panel, oee, doc, svc, rl, view, app>>

\* server.js app.get(['/api/mock/quality', '/mock/quality'])
MockQualityEndpoint ==
  /\ syn.kind = "none"
  /\ syn' = Generated("quality:mock_prediction_service",
                       {"quality_class", "confidence", "class_probabilities", "source"},
                       NoValues, mockQualityConfidence(syn.cdraw))
  /\ UNCHANGED <<req, poll, ls, panel, oee, doc, svc, rl, view, app>>

\* server_.js app.get(['/api/mock/defect', '/mock/defect'])
DeployedMockDefectEndpoint ==
  /\ syn.kind = "none"
  /\ syn' = Generated("defect:deployed_mock_prediction_service",
                       {"defect_probability", "confidence", "risk_level",
                        "preprocessing_applied", "source"},
                       NoValues, deployedDefectConfidence(syn.branch, syn.cdraw))
  /\ UNCHANGED <<req, poll, ls, panel, oee, doc, svc, rl, view, app>>

\* server_.js app.get(['/api/mock/quality', '/mock/quality'])
DeployedMockQualityEndpoint ==
  /\ syn.kind = "none"
  /\ syn' = Generated("quality:deployed_mock_prediction_service",
                       {"quality_class", "confidence", "class_probabilities", "source"},
                       NoValues, deployedQualityConfidence(syn.branch, syn.cdraw))
  /\ UNCHANGED <<req, poll, ls, panel, oee, doc, svc, rl, view, app>>

\* ForecastPanel.generateFallbackData: setDefectPrediction
FallbackDefectPrediction ==
  /\ syn.kind = "none"
  /\ syn' = Generated("defect:fallback",
                       {"defect_probability", "confidence", "risk_level",
                        "preprocessing_applied"},
                       NoValues, fallbackDefectConfidence(syn.branch, syn.cdraw))
  /\ UNCHANGED <<req, poll, ls, panel, oee, doc, svc, rl, view, app>>

\* ForecastPanel.generateFallbackData: setQualityPrediction
FallbackQualityPrediction ==
  /\ syn.kind = "none"
  /\ syn' = Generated("quality:fallback",
                       {"quality_class", "confidence", "class_probabilities"},
                       NoValues, fallbackQualityConfidence(syn.branch, syn.cdraw))
  /\ UNCHANGED <<req, poll, ls, panel, oee, doc, svc, rl, view, app>>

\* the draws are made, nothing is generated yet
SynInit ==
  /\ req = << >>
  /\ app = AppInit
  /\ view = ViewInit
  /\ rl = RlInit
  /\ svc = NoStatusRequest
  /\ doc = NoDoc
  /\ poll = NoPolls
  /\ ls = LsInit
  /\ panel = NoPanel
  /\ oee = OeeInit
  /\ syn \in {[NoPayload EXCEPT !.draw = d, !.base = b, !.branch = k, !.cdraw = r] :
                d \in [SensorFields -> Draws], b \in Bases, k \in 1..3,
                r \in ConfidenceDraws}

SynNext ==
  \/ MockCurrentEndpoint
  \/ EmergencyMock
  \/ generateMockData
  \/ SensorPassThrough
  \/ MockForecastStep
  \/ FallbackForecastStep
  \/ MockDefectEndpoint
  \/ MockQualityEndpoint
  \/ DeployedMockDefectEndpoint
  \/ DeployedMockQualityEndpoint
  \/ FallbackDefectPrediction
  \/ FallbackQualityPrediction

SynSpec == SynInit /\ [][SynNext]_vars

----------------------------------------------------------------------------
(* Built-in report generation: reportTemplates and POST /api/reports/generate
   (server.js) *)

\* answers the handler gives for one snapshot
MaxRenders == 2

\* Date.now() in milliseconds after a reference instant: the same millisecond, the
\* next one, the next second, the next day
Clocks == {0, 1, 1000, 86400000}

DayMs == 86400000

\* what a field of sensorData can be instead of a number: missing, null, NaN, or
\* a string
NotNumbers == {"absent", "null", "NaN", "text"}

\* the values of the fields that are numbers, as toFixed prints them
Numbers == {"0", "95"}

\* sensorData with any subset of its fields missing or not a number; the object
\* has other keys as well (timestamp), so that it is not replaced by mock data
Snapshots ==
  {[f \in SensorFields |-> IF f \in B THEN b ELSE n] :
     B \in SUBSET SensorFields, b \in NotNumbers, n \in Numbers}

\* report_type of the request body: the template keys and what ReportsView sends
RequestedTypes == TemplateKeys \cup {reportTypeMapping(n) : n \in ReportNames}

\* the fields a template prints as ${data.f?.toFixed(d) || 'N/A'}
FixedFields(template) ==
  CASE template = "quality_control"          -> SensorFields
    [] template = "batch_record"             -> {"waste", "produced", "ejection", "tbl_speed"}
    [] template = "process_deviation"        -> {"waste", "produced"}
    [] template = "oee_performance"          -> {"produced", "tbl_speed"}
    [] template = "regulatory_compliance"    -> {"main_comp", "stiffness", "produced"}
    [] template = "manufacturing_excellence" -> {"produced"}

\* v?.toFixed(d) || 'N/A' for every v that has no toFixed to throw on
toFixedOrNA(v) ==
  CASE v \in {"absent", "null"} -> "N/A"
    [] v = "NaN"                -> "NaN"
    [] OTHER                    -> v

\* the value in a condition: undefined, null, NaN and 0 are falsy
Truthy(v) == v \notin {"absent", "null", "NaN", "0"}

\* cond ? (arithmetic on the fields).toFixed(d) : otherwise
ComputedOr(values, otherwise) ==
  IF \A v \in values : Truthy(v)
  THEN IF \A v \in values : v \in Numbers THEN "computed" ELSE "NaN"
  ELSE otherwise

\* the texts a template computes under a truthiness guard
Derived(template, data) ==
  CASE template = "oee_performance" ->
         [efficiency |-> ComputedOr({data.tbl_speed}, "N/A"),
          waste_percentage |-> ComputedOr({data.waste, data.produced}, "N/A"),
          estimated_oee |-> ComputedOr({data.tbl_speed, data.waste, data.produced},
                                       "OEE calculation requires complete sensor data")]
    [] template = "manufacturing_excellence" ->
         [waste_efficiency |-> ComputedOr({data.waste}, "N/A"),
          reliability |-> IF Truthy(data.tbl_speed) THEN "Active" ELSE "Unknown",
          consistency |-> IF Truthy(data.stiffness) THEN "Monitored" ELSE "Unknown"]
    [] OTHER -> << >>

\* BATCH-${Date.now().toString().slice(-6)}; -1 where the template prints none
BatchId(template, now) == IF template = "batch_record" THEN now % 1000000 ELSE -1

\* new Date(Date.now() + days).toLocaleDateString(), as a day number; -1 where the
\* template prints none
NextReview(template, now) ==
  CASE template = "regulatory_compliance"    -> (now \div DayMs) + 30
    [] template = "manufacturing_excellence" -> (now \div DayMs) + 7
    [] OTHER                                 -> -1

\* "text".toFixed is not a function
TemplateThrows(template, data) == \E f \in FixedFields(template) : data[f] = "text"

\* template.template(sensorData); generated is new Date().toLocaleString(), which
\* shows the second
Rendered(template, data, now) ==
  [heading   |-> TemplateName(template),
   shown     |-> [f \in FixedFields(template) |-> toFixedOrNA(data[f])],
   derived   |-> Derived(template, data),
   generated |-> now \div 1000,
   batch_id  |-> BatchId(template, now),
   next_review |-> NextReview(template, now)]

NoText == [heading |-> "none", shown |-> << >>, derived |-> << >>, generated |-> -1,
           batch_id |-> -1, next_review |-> -1]

\* the try block from "Generate report using template" and its catch
Answer(reportType, data, now) ==
  LET template == SelectTemplate(reportType)
  IN  IF TemplateThrows(template, data)
      THEN [code |-> 500, at |-> now, text |-> NoText]
      ELSE [code |-> 200, at |-> now, text |-> Rendered(template, data, now)]

\* app.post(['/api/reports/generate', '/reports/generate']) for the snapshot in doc
GenerateReport(now) ==
  /\ Len(doc.renders) < MaxRenders
  /\ \A i \in 1..Len(doc.renders) : doc.renders[i].at <= now
  /\ doc' = [doc EXCEPT !.renders = Append(@, Answer(doc.report_type, doc.data, now))]
  /\ UNCHANGED <<req, poll, ls, panel, oee, syn, svc, rl, view, app>>

RenderInit ==
  /\ req = << >>
  /\ app = AppInit
  /\ view = ViewInit
  /\ rl = RlInit
  /\ svc = NoStatusRequest
  /\ doc \in {[NoDoc EXCEPT !.report_type = t, !.data = d] :
                t \in RequestedTypes, d \in Snapshots}
  /\ poll = NoPolls
  /\ ls = LsInit
  /\ panel = NoPanel
  /\ oee = OeeInit
  /\ syn = NoPayload

RenderNext == \E now \in Clocks : GenerateReport(now)

RenderSpec == RenderInit /\ [][RenderNext]_vars

----------------------------------------------------------------------------
(* GET /api-status (server.js) *)

\* a checkService that calls every upstream that answered healthy
HealthOfAnyAnswer(o) == IF o \in HttpOutcome THEN "healthy" ELSE "unhealthy"

\* checkService: try { await axios.get } -> 'healthy', catch -> 'unhealthy'
HealthOf(o) == IF AxiosResolves(o) THEN "healthy" ELSE "unhealthy"

\* app.get('/api-status'): the three checkService calls are started together
ApiStatus ==
  /\ svc.pc = "idle"
  /\ svc' = [svc EXCEPT !.pc = "checking", !.checks = [n \in Services |-> "pending"]]
  /\ UNCHANGED <<req, poll, ls, panel, oee, syn, doc, rl, view, app>>

\* one health call settles (answer, refusal or its 5 s timeout) and checkService
\* returns its entry
checkService(name, o) ==
  /\ svc.pc = "checking"
  /\ svc.checks[name] = "pending"
  /\ svc' = [svc EXCEPT !.checks[name] = o, !.entries[name] = HealthOf(o)]
  /\ UNCHANGED <<req, poll, ls, panel, oee, syn, doc, rl, view, app>>

\* Promise.all resolved: res.json({ services: [predictionAPI, sensorAPI, reportAPI] })
ApiStatusAnswer ==
  /\ svc.pc = "checking"
  /\ \A n \in Services : svc.checks[n] # "pending"
  /\ svc' = [svc EXCEPT !.pc = "answered", !.code = 200,
                        !.services = [i \in 1..Len(ServiceNames) |->
                                        [name |-> ServiceNames[i],
                                         status |-> svc.entries[ServiceNames[i]]]]]
  /\ UNCHANGED <<req, poll, ls, panel, oee, syn, doc, rl, view, app>>

StatusInit ==
  /\ req = << >>
  /\ app = AppInit
  /\ view = ViewInit
  /\ rl = RlInit
  /\ doc = NoDoc
  /\ svc = NoStatusRequest
  /\ poll = NoPolls
  /\ ls = LsInit
  /\ panel = NoPanel
  /\ oee = OeeInit
  /\ syn = NoPayload

StatusNext ==
  \/ ApiStatus
  \/ \E n \in Services, o \in Outcome : checkService(n, o)
  \/ ApiStatusAnswer

StatusSpec == StatusInit /\ [][StatusNext]_vars

----------------------------------------------------------------------------
(* RLControl: fetchRLData and generateFallbackAction (RLControl.js) *)

\* recommended_actions of the RL action API: the fields it has (given), speed and
\* compression adjustment in tenths, fill adjustment in hundredths
RecommendedActions ==
  [given : SUBSET {"speed_adjustment", "compression_adjustment", "fill_adjustment"},
   speed_adjustment : {-200, 0, 150, 151},
   compression_adjustment : {-31, 0, 30},
   fill_adjustment : {0, 50, 51}]

\* rlData.recommended_actions.field || 0
OrZero(actions, field) == IF field \in actions.given THEN actions[field] ELSE 0

Abs(x) == IF x < 0 THEN -x ELSE x

\* Math.abs(speedAdjustment) > 15 || Math.abs(compressionAdjustment) > 3 ||
\* Math.abs(fillAdjustment) > 0.5
needsSafetyClipping(action) ==
  \/ Abs(action.speedAdjustment) > 150
  \/ Abs(action.compressionAdjustment) > 30
  \/ Abs(action.fillAdjustment) > 50

\* the readings /api/current answers the fallback with
FallbackReadings ==
  [main_comp : {10, 15, 25}, stiffness : {50, 100}, ejection : {100, 130},
   SREL : {3, 9}, waste : {2, 4}, produced : {700, 900}]

\* generateActionRecommendation(sensorData), in tenths / hundredths
generateActionRecommendation(d) ==
  LET speed == (IF d.main_comp > 22 THEN -30 ELSE 0)
               + (IF d.stiffness < 60 THEN -20 ELSE 0)
               + (IF d.ejection > 120 THEN -10 ELSE 0)
               + (IF d.SREL > 8 THEN -10 ELSE 0)
               + (IF d.waste > 3 THEN -10 ELSE 0)
               + (IF d.produced < 800 THEN 10 ELSE 0)
      compression == IF d.ejection > 120 THEN -5
                     ELSE IF d.main_comp > 22 THEN -15
                     ELSE IF d.main_comp < 12 THEN 10
                     ELSE 0
  IN  [speedAdjustment |-> speed, compressionAdjustment |-> compression,
       fillAdjustment |-> 0, apiStatus |-> "fallback"]

\* fetchRLData: the RL action call answered with recommended_actions:
\* setCurrentAction(transformedAction) and setSafetyStatus
RLActionAccepted(actions) ==
  /\ rl.pc = "idle"
  /\ LET transformedAction ==
           [speedAdjustment |-> OrZero(actions, "speed_adjustment"),
            compressionAdjustment |-> OrZero(actions, "compression_adjustment"),
            fillAdjustment |-> OrZero(actions, "fill_adjustment"),
            apiStatus |-> "connected"]
     IN  rl' = [rl EXCEPT !.currentAction = transformedAction,
                          !.safetyStatus = IF needsSafetyClipping(transformedAction)
                                           THEN "clipping" ELSE "active"]
  /\ UNCHANGED <<req, poll, ls, panel, oee, syn, doc, svc, view, app>>

\* fetchRLData: the buffer status call or the RL action call failed, or the answer
\* had no recommended_actions: setError and generateFallbackAction()
RLActionRejected ==
  /\ rl.pc = "idle"
  /\ rl' = [rl EXCEPT !.pc = "fallback"]
  /\ UNCHANGED <<req, poll, ls, panel, oee, syn, doc, svc, view, app>>

\* generateFallbackAction: /api/current answered with status 'success'
FallbackRecommended(sensorData) ==
  /\ rl.pc = "fallback"
  /\ rl' = [rl EXCEPT !.pc = "idle",
                      !.currentAction = generateActionRecommendation(sensorData)]
  /\ UNCHANGED <<req, poll, ls, panel, oee, syn, doc, svc, view, app>>

\* generateFallbackAction: /api/current answered 2xx without status 'success':
\* nothing is set
FallbackSkipped ==
  /\ rl.pc = "fallback"
  /\ rl' = [rl EXCEPT !.pc = "idle"]
  /\ UNCHANGED <<req, poll, ls, panel, oee, syn, doc, svc, view, app>>

\* generateFallbackAction: /api/current failed: the safe-mode zero action
FallbackSafeMode ==
  /\ rl.pc = "fallback"
  /\ rl' = [rl EXCEPT !.pc = "idle",
                      !.currentAction = [NoAction EXCEPT !.apiStatus = "offline"]]
  /\ UNCHANGED <<req, poll, ls, panel, oee, syn, doc, svc, view, app>>

RLInit ==
  /\ req = << >>
  /\ app = AppInit
  /\ view = ViewInit
  /\ doc = NoDoc
  /\ svc = NoStatusRequest
  /\ rl = RlInit
  /\ poll = NoPolls
  /\ ls = LsInit
  /\ panel = NoPanel
  /\ oee = OeeInit
  /\ syn = NoPayload

RLNext ==
  \/ \E actions \in RecommendedActions : RLActionAccepted(actions)
  \/ RLActionRejected
  \/ \E sensorData \in FallbackReadings : FallbackRecommended(sensorData)
  \/ FallbackSkipped
  \/ FallbackSafeMode

RLSpec == RLInit /\ [][RLNext]_vars

----------------------------------------------------------------------------
(* ReportsView: fetchSystemStatus and handleGenerateReport (ReportsView.js) *)

\* response.data.status of a 2xx answer of /api/reports/health
HealthStatuses == {"healthy", "degraded", "unavailable"}

\* generate buttons that stay enabled while a report is being generated
DisabledWhenUnavailable == view.systemStatus = "unavailable"

\* generate buttons that stay enabled when the report service is unavailable
DisabledWhileGenerating == view.generatingReportType # "null"

\* disabled={generatingReportType !== null || systemStatus?.status === 'unavailable'}
Disabled == view.generatingReportType # "null" \/ view.systemStatus = "unavailable"

Remove(seq, i) == [j \in 1..(Len(seq) - 1) |-> IF j < i THEN seq[j] ELSE seq[j + 1]]

\* fetchSystemStatus: setSystemStatus(response.data)
HealthResolved(status) ==
  /\ view.health = "pending"
  /\ view' = [view EXCEPT !.health = "resolved", !.systemStatus = status]
  /\ UNCHANGED <<req, poll, ls, panel, oee, syn, doc, svc, rl, app>>

\* fetchSystemStatus: catch -> setSystemStatus({ status: 'unavailable' })
HealthRejected ==
  /\ view.health = "pending"
  /\ view' = [view EXCEPT !.health = "rejected", !.systemStatus = "unavailable"]
  /\ UNCHANGED <<req, poll, ls, panel, oee, syn, doc, svc, rl, app>>

\* a click on an enabled generate button: handleGenerateReport up to its await
ClickGenerate(reportType) ==
  /\ ~Disabled
  /\ view' = [view EXCEPT !.generatingReportType = reportType, !.error = "null",
                          !.generatedReport = "null",
                          !.inflight = Append(@, reportType)]
  /\ UNCHANGED <<req, poll, ls, panel, oee, syn, doc, svc, rl, app>>

\* the POST in flight answered 2xx with status 'success': the report is shown;
\* finally: setGeneratingReportType(null)
GenerateSucceeded(i) ==
  /\ i \in 1..Len(view.inflight)
  /\ view' = [view EXCEPT !.generatedReport = view.inflight[i],
                          !.selectedReport = view.inflight[i],
                          !.generatingReportType = "null",
                          !.inflight = Remove(@, i)]
  /\ UNCHANGED <<req, poll, ls, panel, oee, syn, doc, svc, rl, app>>

\* the POST in flight answered 2xx without status 'success', or with an error
\* status: setError; finally: setGeneratingReportType(null)
GenerateErrorAnswer(i) ==
  /\ i \in 1..Len(view.inflight)
  /\ view' = [view EXCEPT !.error = "failed", !.generatingReportType = "null",
                          !.inflight = Remove(@, i)]
  /\ UNCHANGED <<req, poll, ls, panel, oee, syn, doc, svc, rl, app>>

\* the POST in flight ran into its 300000 ms timeout (ECONNABORTED): setError;
\* finally: setGeneratingReportType(null)
GenerateTimedOut(i) ==
  /\ i \in 1..Len(view.inflight)
  /\ view' = [view EXCEPT !.error = "timed_out", !.generatingReportType = "null",
                          !.inflight = Remove(@, i)]
  /\ UNCHANGED <<req, poll, ls, panel, oee, syn, doc, svc, rl, app>>

\* POSTs that can be in flight at the same time in any variant of the component
Posts == {1, 2}

ViewSpecInit ==
  /\ req = << >>
  /\ app = AppInit
  /\ doc = NoDoc
  /\ svc = NoStatusRequest
  /\ rl = RlInit
  /\ view = ViewInit
  /\ poll = NoPolls
  /\ ls = LsInit
  /\ panel = NoPanel
  /\ oee = OeeInit
  /\ syn = NoPayload

ViewNext ==
  \/ \E status \in HealthStatuses : HealthResolved(status)
  \/ HealthRejected
  \/ \E reportType \in ReportNames : ClickGenerate(reportType)
  \/ \E i \in Posts : GenerateSucceeded(i)
  \/ \E i \in Posts : GenerateErrorAnswer(i)
  \/ \E i \in Posts : GenerateTimedOut(i)

ViewSpec == ViewSpecInit /\ [][ViewNext]_vars

----------------------------------------------------------------------------
(* App: navigation between the panels (App.js) *)

\* panels.length
PanelCount == 5

PanelIndexes == 0..(PanelCount - 1)

\* event.key of the key presses tried
Keys == {"ArrowLeft", "ArrowRight", "0", "1", "2", "3", "4", "5", "6", "a", "Enter"}

\* a goToNext that does not wrap
NextIndexUnwrapped(prev) == prev + 1

\* prev === panels.length - 1 ? 0 : prev + 1
NextIndex(prev) == IF prev = PanelCount - 1 THEN 0 ELSE prev + 1

\* prev === 0 ? panels.length - 1 : prev - 1
PreviousIndex(prev) == IF prev = 0 THEN PanelCount - 1 ELSE prev - 1

\* event.key >= '1' && event.key <= '5' (string comparison), then
\* parseInt(event.key) - 1; -1 for every other key
KeyIndex(key) ==
  CASE key = "1" -> 0
    [] key = "2" -> 1
    [] key = "3" -> 2
    [] key = "4" -> 3
    [] key = "5" -> 4
    [] OTHER     -> -1

Handled(event, state) == [state EXCEPT !.last = event, !.from = app.currentPanelIndex]

goToPrevious(event) ==
  Handled(event, [app EXCEPT !.currentPanelIndex = PreviousIndex(@)])

goToNext(event) ==
  Handled(event, [app EXCEPT !.currentPanelIndex = NextIndex(@)])

goToPanel(event, index) ==
  Handled(event, [app EXCEPT !.currentPanelIndex = index, !.showHomePage = FALSE,
                             !.showDetailedReport = FALSE])

\* the arrows, the dots and the footer are rendered
PanelShown == ~app.showHomePage /\ ~app.showDetailedReport

\* handleKeyPress, the window's keydown listener
KeyPress(key) ==
  /\ app' = CASE key = "ArrowLeft"  -> goToPrevious("key:ArrowLeft")
              [] key = "ArrowRight" -> goToNext("key:ArrowRight")
              [] KeyIndex(key) \in PanelIndexes /\ KeyIndex(key) < PanelCount ->
                   goToPanel("key:digit", KeyIndex(key))
              [] OTHER -> Handled("key:other", app)
  /\ UNCHANGED <<req, poll, ls, panel, oee, syn, doc, svc, rl, view>>

\* onClick of a button of the header's panel navigation
ClickNavButton(index) ==
  /\ ~app.showDetailedReport
  /\ app' = goToPanel("click:nav-btn", index)
  /\ UNCHANGED <<req, poll, ls, panel, oee, syn, doc, svc, rl, view>>

\* onClick of a dot of the bottom navigation
ClickNavDot(index) ==
  /\ PanelShown
  /\ app' = goToPanel("click:nav-dot", index)
  /\ UNCHANGED <<req, poll, ls, panel, oee, syn, doc, svc, rl, view>>

\* onClick of the floating left arrow
ClickArrowLeft ==
  /\ PanelShown
  /\ app' = goToPrevious("click:arrow-left")
  /\ UNCHANGED <<req, poll, ls, panel, oee, syn, doc, svc, rl, view>>

\* onClick of the floating right arrow
ClickArrowRight ==
  /\ PanelShown
  /\ app' = goToNext("click:arrow-right")
  /\ UNCHANGED <<req, poll, ls, panel, oee, syn, doc, svc, rl, view>>

\* onClick of the title in the header
ClickTitle ==
  /\ ~app.showDetailedReport
  /\ app' = Handled("click:title", [app EXCEPT !.showHomePage = TRUE,
                                               !.showDetailedReport = FALSE])
  /\ UNCHANGED <<req, poll, ls, panel, oee, syn, doc, svc, rl, view>>

\* goToDetailedReport, handed to HomePage as onNavigateToDetailedReport
goToDetailedReport ==
  /\ app.showHomePage /\ ~app.showDetailedReport
  /\ app' = Handled("detailed-report", [app EXCEPT !.showDetailedReport = TRUE,
                                                   !.showHomePage = FALSE])
  /\ UNCHANGED <<req, poll, ls, panel, oee, syn, doc, svc, rl, view>>

\* backToHome, handed to DetailedReport as onBackToHome
backToHome ==
  /\ app.showDetailedReport
  /\ app' = Handled("back-to-home", [app EXCEPT !.showDetailedReport = FALSE,
                                                !.showHomePage = TRUE])
  /\ UNCHANGED <<req, poll, ls, panel, oee, syn, doc, svc, rl, view>>

AppSpecInit ==
  /\ req = << >>
  /\ doc = NoDoc
  /\ svc = NoStatusRequest
  /\ rl = RlInit
  /\ view = ViewInit
  /\ app = AppInit
  /\ poll = NoPolls
  /\ ls = LsInit
  /\ panel = NoPanel
  /\ oee = OeeInit
  /\ syn = NoPayload

AppNext ==
  \/ \E key \in Keys : KeyPress(key)
  \/ \E index \in PanelIndexes : ClickNavButton(index)
  \/ \E index \in PanelIndexes : ClickNavDot(index)
  \/ ClickArrowLeft
  \/ ClickArrowRight
  \/ ClickTitle
  \/ goToDetailedReport
  \/ backToHome

AppSpec == AppSpecInit /\ [][AppNext]_vars

----------------------------------------------------------------------------
(* Properties of the gateway (checked under Spec) *)

\* the outcomes of the upstream calls a request has made so far
OutcomesOf(r) == {r.calls[i][2] : i \in 1..Len(r.calls)}

\* the error classes of an upstream call: unreachable, timed out, malformed
\* payload, non-success status code
ErrorClass == {"unreachable", "timeout", "junk", "status"}

\* no handler and no upstream call of the request is pending
Quiescent(r) == r.pc = "end"

\* C3: a report request made while the narrative report service is unreachable is
\* answered with a built-in template report whose document contains the name of
\* the report type that was requested, for each of the six report types.
C3_BuiltInReportNamesRequestedType ==
  \A s \in DOMAIN req :
    (/\ req[s].route \in apiReports \cup legacyReports
     /\ Quiescent(req[s])
     /\ req[s].calls[1][2] \in NetFail)
    => /\ req[s].resp.origin = "builtin"
       /\ req[s].resp.shape = "report"
       /\ req[s].body.report_requested \in NamesInDocument(req[s].report.template)

\* C4: every request for GET /api/current or POST /api/reports/generate receives a
\* response: once nothing is pending for it any more, it has been answered.
C4_NoRequestLeftPending ==
  \A s \in DOMAIN req :
    (req[s].route \in {"/api/current", "/api/reports/generate"} /\ Quiescent(req[s]))
    => headersSent(req[s])

\* C8: every error class of the prediction API call (unreachable, timed out,
\* malformed payload, non-success status) moves /api/current on to the sensor API;
\* the request is answered with the prediction API's payload only after a
\* validated success.
C8_EveryErrorClassFallsBack ==
  \A s \in DOMAIN req :
    (/\ req[s].route \in CurrentRoutes
     /\ headersSent(req[s])
     /\ req[s].calls[1][2] \in ErrorClass)
    => /\ req[s].resp.origin # "prediction"
       /\ Len(req[s].calls) >= 2

\* C10: each gateway request is answered at most once; a response or error that
\* arrives after the request was answered produces no second answer.
C10_AnsweredAtMostOnce == \A s \in DOMAIN req : req[s].sent <= 1

\* the sensor API's answer arrived after the prediction API's response had been
\* relayed, and was discarded
C10_Witness ==
  \E s \in DOMAIN req :
    /\ req[s].route \in CurrentRoutes
    /\ req[s].pc = "end"
    /\ req[s].sent = 1
    /\ req[s].resp.origin = "prediction"
    /\ Len(req[s].calls) = 2
    /\ req[s].calls[2][2] # "pending"

\* C25: GET /health is answered by the gateway's own handler (status healthy,
\* service smart-pharma-copilot-ui): no upstream is called for it and its answer
\* does not depend on one.
C25_HealthServedLocally ==
  \A s \in DOMAIN req :
    req[s].route \in healthEndpoint =>
      /\ req[s].calls = << >>
      /\ req[s].resp = HealthResponse

----------------------------------------------------------------------------
(* Properties of a LiveSensors poll (checked under LiveSpec) *)

IsPrefix(s, t) == Len(s) <= Len(t) /\ \A i \in 1..Len(s) : s[i] = t[i]

\* the endpoints a poll has tried so far, in the order it tried them
EndpointsOf(tried) == [i \in 1..Len(tried) |-> tried[i][1]]

\* the upstreams the gateway tries for the current reading, before its emergency mock
GatewayChain == <<"prediction", "sensor">>

NoDuplicates(seq) == \A i, j \in 1..Len(seq) : i # j => seq[i] # seq[j]

\* C2: the label LiveSensors displays never names a higher-trust tier than the
\* one that produced the reading: a reading made by a synthetic/mock generator is
\* never shown as live ("connected") or as real sensor API data ("fallback").
C2_LabelNamesProducingTier ==
  ls.sensorData = "synthetic" => ls.predictionApiStatus \notin {"connected", "fallback"}

C6_EachProviderAtMostOnce ==
  \A p \in DOMAIN poll : NoDuplicates(poll[p].providers \o ProvidersOf(req[p]))

\* C7: every poll starts again at the first tier whatever happened in the polls
\* before it, and a poll whose first tier answers validly takes its result from
\* the first tier.
C7_NoStickyFailure ==
  \A p \in DOMAIN poll :
    poll[p].pc # "idle" =>
      /\ poll[p].tried[1][1] = TierChain[1]
      /\ poll[p].tried[1][2] = "ok" => (poll[p].pc = "done" /\ poll[p].result = 1)

\* a poll that started while the panel showed a degraded label ended on the
\* first tier
C7_Witness ==
  \E p \in DOMAIN poll :
    /\ poll[p].afterFailure
    /\ poll[p].pc = "done"
    /\ poll[p].result = 1
    /\ ls.predictionApiStatus = "connected"

\* C26: polls of the panel are not coalesced.  While the earlier poll is in flight
\* the later one can start, and every poll that completes overwrites the panel's
\* state with its own result whatever the other poll has done: after both have
\* completed the panel shows the result of the one that finished last.
C26_PollsNotCoalesced ==
  /\ [](poll[1].pc = "wait" /\ poll[2].pc = "idle" => ENABLED LaterPoll)
  /\ [][\A p \in DOMAIN poll :
          (poll[p].pc # "done" /\ poll'[p].pc = "done") =>
            /\ ls'.predictionApiStatus = StatusLabel(poll'[p].result)
            /\ poll'[p].result = 4 => ls'.sensorData = "synthetic"]_vars

\* both polls have completed, the later one on the first tier, and the panel
\* shows the local simulation of the earlier one, which finished last
C26_Witness ==
  /\ poll[1].pc = "done" /\ poll[1].result = 4
  /\ poll[2].pc = "done" /\ poll[2].result = 1
  /\ ls.predictionApiStatus = "offline"
  /\ ls.sensorData = "synthetic"

\* the labels getStatusIndicator has a case for
SourceStatuses == {"connected", "fallback", "mock", "offline"}

\* C23: every step that completes a poll leaves the panel with a reading
\* (sensorData is not null) and with one of the source statuses connected,
\* fallback, mock, offline, whatever the upstreams answered during the poll.
C23_PopulatedAfterEveryPoll ==
  [][\A p \in DOMAIN poll :
       (poll[p].pc # "done" /\ poll'[p].pc = "done") =>
         /\ ls'.sensorData # "null"
         /\ ls'.predictionApiStatus \in SourceStatuses]_vars

\* a poll whose first three try blocks all failed has completed with the local
\* simulation
C23_Witness ==
  \E p \in DOMAIN poll :
    /\ poll[p].pc = "done"
    /\ poll[p].result = 4
    /\ \A i \in 1..3 : poll[p].tried[i][2] = "failed"
    /\ ls.sensorData = "synthetic"
    /\ ls.predictionApiStatus = "offline"

----------------------------------------------------------------------------
(* Properties of a panel's fetch cycle (checked under PanelSpec) *)

\* every call the cycle made was rejected
EveryCallRejected(p) ==
  /\ \A n \in SubCallsOf(p.kind) : p.sub[n] \in {"rejected", "unissued"}
  /\ p.fallback \in {"rejected", "unissued"}

\* C1: a fetch cycle in which every upstream call fails still ends with a
\* synthetic payload in the panel, never with an empty result.
C1_SyntheticWhenAllFail ==
  (panel.pc = "done" /\ EveryCallRejected(panel)) => panel.result = "synthetic"

\* C9: in a finished fetch cycle every sub-call of the panel was issued, and
\* every sub-call that answered validly had its result used, whatever happened
\* to the other sub-calls.
C9_PartialFailureTolerated ==
  panel.pc = "done" =>
    \A n \in SubCallsOf(panel.kind) :
      /\ panel.sub[n] # "unissued"
      /\ panel.sub[n] = "valid" => n \in panel.used

----------------------------------------------------------------------------
(* Properties of the OEE history (checked under HistorySpec) *)

\* C11: after any sequence of scorings the history holds at most 20 entries, and
\* they are the most recent scorings in the order in which they were appended.
C11_HistoryKeepsLast20 ==
  LET h == oee.historicalOEE
  IN  /\ Len(h) <= 20
      /\ Len(h) = IF oee.n < 20 THEN oee.n ELSE 20
      /\ \A i \in 1..Len(h) : h[i] = oee.n - Len(h) + i

\* 22 scorings have been appended: the first two are gone
C11_Witness ==
  /\ oee.n = 22
  /\ Len(oee.historicalOEE) = 20
  /\ oee.historicalOEE[1] = 3
  /\ oee.historicalOEE[20] = 22

----------------------------------------------------------------------------
(* Properties of one scoring (checked under ScoreSpec) *)

\* x limited to [lo, hi]
Limited(x, lo, hi) == IF x < lo THEN lo ELSE IF x > hi THEN hi ELSE x

\* C12: the overall score of every scoring lies between the product of the lower
\* bounds and the product of the upper bounds of the clamped sub-score ranges,
\* divided by 10000.
C12_OverallWithinBounds ==
  oee.kind # "initial" =>
    /\ oee.oeeData.overall >= ClampRange.availability.lo * ClampRange.performance.lo
                                * ClampRange.quality.lo
    /\ oee.oeeData.overall <= ClampRange.availability.hi * ClampRange.performance.hi
                                * ClampRange.quality.hi

\* a scoring whose three sub-scores all sit on their lower bounds: 62.56 shown as 62.6
C12_Witness ==
  /\ oee.kind = "real"
  /\ oee.raw = [availability |-> 850, performance |-> 8000000, quality |-> 92000]
  /\ oee.oeeData.overall = 626000000

\* C13: availability is 98 minus the penalties that apply (12 if speed < 5, 4 if
\* ejection force > 180, 2 if waste > 8, 15 if throughput is 0, 3 if the buffer
\* data is known insufficient), clamped to [85, 99.5].
C13_AvailabilityFormula ==
  oee.kind = "real" =>
    LET in == oee.input
        penalties == (IF in.tbl_speed < 5 THEN 12 ELSE 0) + (IF in.ejection > 180 THEN 4 ELSE 0)
                     + (IF in.waste > 8 THEN 2 ELSE 0) + (IF in.produced = 0 THEN 15 ELSE 0)
                     + (IF in.buffer = "not_ready" THEN 3 ELSE 0)
    IN  oee.oeeData.availability = Limited(10 * (98 - penalties), 850, 995)

\* three penalties apply and the clamp does not: 98 - 4 - 2 - 3 = 89
C13_Witness ==
  /\ oee.kind = "real"
  /\ oee.input.buffer = "not_ready" /\ oee.input.ejection > 180 /\ oee.input.waste > 8
  /\ oee.input.tbl_speed >= 5 /\ oee.input.produced > 0
  /\ oee.oeeData.availability = 890

\* the sensor-only quality: 97 minus the fixed penalties, in units of 10^-3
SensorFallbackQuality(in) ==
  97000 - (IF in.main_comp > 30 \/ in.main_comp < 5 THEN 2000 ELSE 0)
        - (IF in.SREL > 12 \/ in.SREL < 1 THEN 1000 ELSE 0)
        - (IF in.stiffness < 40 \/ in.stiffness > 220 THEN 2000 ELSE 0)
        - (IF in.ejection > 180 THEN 1000 ELSE 0)
        - (IF in.waste * 300 < 3000 THEN in.waste * 300 ELSE 3000)

\* 1.03, 1.00, 0.95 for High, Medium, Low, in percent; 0.98 for any other class
ClassFactor(class) ==
  IF class = "High" THEN 103 ELSE IF class = "Medium" THEN 100
  ELSE IF class = "Low" THEN 95 ELSE 98

\* C14 as stated: with a defect prediction quality is (1 - defect_probability) * 100
\* clamped to [90, 99.8]; otherwise it is the sensor-only quality, multiplied by
\* 1.03, 1.00 or 0.95 when a quality prediction of class High, Medium or Low is
\* available.
C14_QualityAsStated ==
  oee.kind = "real" =>
    LET in == oee.input
    IN  oee.raw.quality =
          IF in.defect # NoPrediction THEN Limited((100 - in.defect) * 1000, 90000, 99800)
          ELSE IF in.quality_class \in {"High", "Medium", "Low"}
               THEN (SensorFallbackQuality(in) * ClassFactor(in.quality_class)) \div 100
               ELSE SensorFallbackQuality(in)

\* C14 amended: quality starts from (1 - defect_probability) * 100 raised to at
\* least 90 when a defect prediction is available and from the sensor-only quality
\* otherwise; in both cases it is multiplied by the factor of an available quality
\* class (1.03, 1.00, 0.95, and 0.98 for any other class) and then clamped to
\* [92, 99.8].
C14_QualityAsComputed ==
  oee.kind = "real" =>
    LET in == oee.input
        start == IF in.defect # NoPrediction
                 THEN (IF (100 - in.defect) * 1000 < 90000 THEN 90000
                       ELSE (100 - in.defect) * 1000)
                 ELSE SensorFallbackQuality(in)
        scaled == IF in.quality_class # "none"
                  THEN (start * ClassFactor(in.quality_class)) \div 100 ELSE start
    IN  /\ oee.raw.quality = Limited(scaled, 92000, 99800)
        /\ oee.oeeData.quality = (oee.raw.quality + 50) \div 100

\* a defect prediction of 5% with quality class Low: 95 * 0.95 = 90.25, raised to 92
C14_Witness ==
  /\ oee.kind = "real"
  /\ oee.input.defect = 5
  /\ oee.input.quality_class = "Low"
  /\ oee.oeeData.quality = 920

\* C15: performance is 0.7 * min(speed / 90 * 100, 105) + 0.3 * min(throughput / 700
\* * 100, 105), multiplied by 0.99 when compression force is outside [8, 25] and by
\* 0.98 when stiffness is below 70, clamped to [80, 105].
C15_PerformanceFormula ==
  oee.kind = "real" =>
    LET in == oee.input
        speed == IF (in.tbl_speed * 100) \div 90 < 105 THEN (in.tbl_speed * 100) \div 90 ELSE 105
        throughput == IF (in.produced * 100) \div 700 < 105
                      THEN (in.produced * 100) \div 700 ELSE 105
        base == 70000 * speed + 30000 * throughput
        afterCompression == IF in.main_comp > 25 \/ in.main_comp < 8
                            THEN (base \div 100) * 99 ELSE base
        afterStiffness == IF in.stiffness < 70
                          THEN (afterCompression \div 100) * 98 ELSE afterCompression
    IN  /\ oee.raw.performance = Limited(afterStiffness, 8000000, 10500000)
        /\ oee.oeeData.performance = (oee.raw.performance + 5000) \div 10000

\* both penalties apply and the clamp does not: (70 + 31.5) * 0.99 * 0.98 = 98.4753
C15_Witness ==
  /\ oee.kind = "real"
  /\ oee.input.main_comp > 25 /\ oee.input.stiffness < 70
  /\ oee.raw.performance = 9847530
  /\ oee.oeeData.performance = 985

\* the status the claim gives for an overall score in units of 10^-7 percent
StatedStatus(overall) ==
  IF overall >= 750000000 THEN "excellent"
  ELSE IF overall >= 650000000 THEN "good"
  ELSE IF overall >= 550000000 THEN "fair" ELSE "poor"

C17_ExampleAsStated ==
  (oee.kind = "real" /\ oee.input = ExampleSnapshot) =>
    /\ oee.oeeData.availability = 650
    /\ oee.oeeData.performance = 800
    /\ getOEEStatus(oee.oeeData.overall) = "poor"

\* C17 amended: that snapshot scores availability 85 (98 - 12 - 4 - 2 - 15 = 65,
\* raised to the floor), performance 80 (its floor), quality 92 (the sensor-only
\* 88, raised to the floor), overall 62.6 and status Fair.
C17_ExampleAsComputed ==
  (oee.kind = "real" /\ oee.input = ExampleSnapshot) =>
    /\ oee.oeeData.availability = 850
    /\ oee.oeeData.performance = 800
    /\ oee.oeeData.quality = 920
    /\ oee.oeeData.overall = 626000000
    /\ getOEEStatus(oee.oeeData.overall) = "fair"

\* the example snapshot has been scored
C17_Witness ==
  /\ oee.kind = "real"
  /\ oee.input = ExampleSnapshot
  /\ oee.n = 1

----------------------------------------------------------------------------
(* Properties of the synthetic payloads (checked under SynSpec) *)

\* the interval of each numeric field of a synthetic reading, in thousandths:
\* waste [1, 4], throughput [800, 1300], ejection force [100, 140], tablet speed
\* [90, 120], stiffness [75, 125], ratio parameter [2.5, 5.5], compression force
\* [12, 20]
DocumentedInterval ==
  [waste     |-> [min |-> 1000,   max |-> 4000],
   produced  |-> [min |-> 800000, max |-> 1300000],
   ejection  |-> [min |-> 100000, max |-> 140000],
   tbl_speed |-> [min |-> 90000,  max |-> 120000],
   stiffness |-> [min |-> 75000,  max |-> 125000],
   SREL      |-> [min |-> 2500,   max |-> 5500],
   main_comp |-> [min |-> 12000,  max |-> 20000]]

SyntheticReadings == {"reading:mock_data_service", "reading:emergency_fallback_mock",
                      "reading:local_simulation"}

SyntheticForecasts == {"forecast:mock_prediction_service", "forecast:fallback"}

SyntheticPredictions == {"defect:mock_prediction_service", "quality:mock_prediction_service",
                         "defect:deployed_mock_prediction_service",
                         "quality:deployed_mock_prediction_service",
                         "defect:fallback", "quality:fallback"}

\* C18: every numeric field of every synthetic reading and of every step of a
\* synthetic forecast lies within the interval of that field.
C18_SyntheticWithinIntervals ==
  syn.kind \in SyntheticReadings \cup SyntheticForecasts =>
    \A f \in SensorFields :
      /\ syn.value[f] >= DocumentedInterval[f].min
      /\ syn.value[f] <= DocumentedInterval[f].max

\* C19: every synthetic defect prediction and every synthetic quality prediction
\* carries a confidence, and it is at least 0.75.
C19_SyntheticConfidenceFloor ==
  syn.kind \in SyntheticPredictions =>
    /\ "confidence" \in syn.fields
    /\ syn.confidence >= 750000

\* the fixed set of fields of a sensor snapshot
SnapshotFields == {"main_comp", "tbl_fill", "tbl_speed", "stiffness", "SREL", "produced",
                   "waste", "ejection"}

\* C20: every reading handed to a consumer, from the sensor API or from a
\* synthetic generator, has every field of the fixed set and a timestamp.
C20_SnapshotComplete ==
  syn.kind \in SyntheticReadings \cup {"reading:sensor_api"} =>
    SnapshotFields \cup {"timestamp"} \subseteq syn.fields

----------------------------------------------------------------------------
(* Properties of built-in report generation (checked under RenderSpec) *)

\* the text of a report without its generation timestamp
WithoutTimestamp(text) == [text EXCEPT !.generated = -1]

\* C21: two reports rendered from the same snapshot for the same report type have
\* the same text once the generation timestamp is left out.
C21_SameTextButTimestamp ==
  (Len(doc.renders) >= 2 /\ doc.renders[1].code = 200 /\ doc.renders[2].code = 200) =>
    WithoutTimestamp(doc.renders[1].text) = WithoutTimestamp(doc.renders[2].text)

\* C22: whatever fields of the snapshot are missing or not a number, the report is
\* rendered (never an error answer) and shows N/A or 0 for each such field.
C22_DefaultsForBadFields ==
  \A i \in 1..Len(doc.renders) :
    /\ doc.renders[i].code = 200
    /\ \A f \in DOMAIN doc.renders[i].text.shown :
         doc.data[f] \in NotNumbers => doc.renders[i].text.shown[f] \in {"N/A", "0"}

----------------------------------------------------------------------------
(* Properties of GET /api-status (checked under StatusSpec) *)

\* C24: the status request is answered with code 200 and one entry per upstream,
\* in the order prediction API, sensor API, report generation API; an entry is
\* healthy exactly when that upstream's own health call got a 2xx answer, and the
\* entry of a settled call is what its own outcome made it whatever the other
\* calls do.
C24_OneEntryPerUpstream ==
  /\ \A n \in Services :
       svc.checks[n] \notin {"none", "pending"} =>
         (svc.entries[n] = "healthy" <=> AxiosResolves(svc.checks[n]))
  /\ svc.pc = "answered" =>
       /\ svc.code = 200
       /\ Len(svc.services) = Len(ServiceNames)
       /\ \A i \in 1..Len(ServiceNames) :
            /\ svc.services[i].name = ServiceNames[i]
            /\ svc.services[i].status = "healthy"
                 <=> AxiosResolves(svc.checks[ServiceNames[i]])

\* the request was answered while the prediction API was unreachable, the sensor
\* API answered with an error status and the report API was up
C24_Witness ==
  /\ svc.pc = "answered"
  /\ svc.checks["Prediction API"] = "unreachable"
  /\ svc.checks["Sensor API"] = "status"
  /\ svc.checks["Report Generation API"] \in Shape2xx
  /\ svc.services[3].status = "healthy"

----------------------------------------------------------------------------
(* Properties of RLControl (checked under RLSpec) *)

\* C27: whenever an action is displayed, safetyStatus is 'clipping' exactly when
\* that action exceeds a limit (|speed| > 15, |compression| > 3, |fill| > 0.5),
\* also when the action is a fallback action or the safe-mode zero action.
C27_SafetyStatusMatchesAction ==
  rl.currentAction.apiStatus # "null" =>
    (rl.safetyStatus = "clipping" <=> needsSafetyClipping(rl.currentAction))

----------------------------------------------------------------------------
(* Properties of ReportsView (checked under ViewSpec) *)

\* C28: at most one report generation is in flight; generatingReportType is
\* non-null exactly while one is, and names it, so that no generation can be
\* started meanwhile and every end of a generation (success, error answer,
\* timeout) leaves generatingReportType null.
C28_OneGenerationInFlight ==
  /\ Len(view.inflight) <= 1
  /\ view.generatingReportType = "null" <=> view.inflight = << >>
  /\ view.inflight # << >> => view.inflight[1] = view.generatingReportType
  /\ view.inflight # << >> => \A n \in ReportNames : ~ENABLED ClickGenerate(n)

\* a generation has ended in a timeout and nothing is in flight
C28_Witness ==
  /\ view.error = "timed_out"
  /\ view.inflight = << >>
  /\ view.generatingReportType = "null"

\* C29: the health check is made once, at mount; when it has failed, systemStatus
\* is 'unavailable' from then on and no generate button can be used.
C29_UnavailableForGood ==
  view.health = "rejected" =>
    /\ view.systemStatus = "unavailable"
    /\ \A n \in ReportNames : ~ENABLED ClickGenerate(n)

\* the health check has failed after a generation had been started, and that
\* generation has delivered its report
C29_Witness ==
  /\ view.health = "rejected"
  /\ view.generatedReport # "null"
  /\ view.generatingReportType = "null"

----------------------------------------------------------------------------
(* Properties of App (checked under AppSpec) *)

NextEvents == {"key:ArrowRight", "click:arrow-right"}

PreviousEvents == {"key:ArrowLeft", "click:arrow-left"}

\* C30: after any sequence of navigation events the home page and the detailed
\* report are never both shown and the panel index is one of the five panels;
\* going to the next panel from the last one leads to panel 0 and going to the
\* previous panel from panel 0 leads to the last one.
C30_NavigationStateValid ==
  /\ ~(app.showHomePage /\ app.showDetailedReport)
  /\ app.currentPanelIndex \in 0..4
  /\ app.last \in NextEvents =>
       app.currentPanelIndex = IF app.from = 4 THEN 0 ELSE app.from + 1
  /\ app.last \in PreviousEvents =>
       app.currentPanelIndex = IF app.from = 0 THEN 4 ELSE app.from - 1

\* the right arrow key was pressed on the last panel while the detailed report
\* was shown, and the index wrapped to 0
C30_Witness ==
  /\ app.last = "key:ArrowRight"
  /\ app.from = 4
  /\ app.currentPanelIndex = 0
  /\ app.showDetailedReport

====
